---- MODULE Spec2Model ----
(***************************************************************************)
(* A model of rename-screenshot: the two AI providers' response resolution *)
(* (tool call first, free text as fallback), the sequential processing     *)
(* queue fed by the retroactive scan and the directory watcher, and the    *)
(* backup + collision-safe move performed for every processed file.        *)
(***************************************************************************)
EXTENDS Integers, Sequences, FiniteSets, TLC

(***************************************************************************)
(* JSON text.  A text is a sequence of tokens; a member token stands for   *)
(* one  "key": value  pair.  JSONparse recognises the texts JSON.parse     *)
(* accepts over these tokens and returns the value it would build.         *)
(***************************************************************************)
LB == "{"
RB == "}"
COMMA == ","
NULL == "null"
WORD == "Here"
FENCE_OPEN == "<fence json>"
FENCE_CLOSE == "<fence>"

\* Field values: a JSON string, a JSON number, or no such key.
Str(s) == [t |-> "str", v |-> s]
Num(s) == [t |-> "num", v |-> s]
Absent == [t |-> "absent", v |-> ""]

\* The member tokens and the (key, value) each one denotes.
Members ==
    [tok \in {"\"filename\":\"login-page\"", "\"filename\":\"shot\"",
              "\"filename\":\"fallback-name\"", "\"filename\":\"\"",
              "\"filename\":\" \"", "\"filename\":5",
              "\"category\":\"web\"", "\"category\":\"code\"",
              "\"category\":\"misc\"", "\"category\":7"} |->
        CASE tok = "\"filename\":\"login-page\"" -> [key |-> "filename", val |-> Str("login-page")]
          [] tok = "\"filename\":\"shot\"" -> [key |-> "filename", val |-> Str("shot")]
          [] tok = "\"filename\":\"fallback-name\"" -> [key |-> "filename", val |-> Str("fallback-name")]
          [] tok = "\"filename\":\"\"" -> [key |-> "filename", val |-> Str("")]
          [] tok = "\"filename\":\" \"" -> [key |-> "filename", val |-> Str(" ")]
          [] tok = "\"filename\":5" -> [key |-> "filename", val |-> Num("5")]
          [] tok = "\"category\":\"web\"" -> [key |-> "category", val |-> Str("web")]
          [] tok = "\"category\":\"code\"" -> [key |-> "category", val |-> Str("code")]
          [] tok = "\"category\":\"misc\"" -> [key |-> "category", val |-> Str("misc")]
          [] tok = "\"category\":7" -> [key |-> "category", val |-> Num("7")]]

IsMember(tok) == tok \in DOMAIN Members

\* JavaScript values that matter here: an object seen through its filename
\* and category keys, null, and the SyntaxError JSON.parse throws.
Obj(fn, cat) == [kind |-> "object", filename |-> fn, category |-> cat]
JsNull == [kind |-> "null", filename |-> Absent, category |-> Absent]
SyntaxError == [kind |-> "SyntaxError", filename |-> Absent, category |-> Absent]

\* The value of key k in the member list ms (tokens between the braces):
\* the last member with that key wins, as in JSON.parse.
RECURSIVE Lookup(_, _)
Lookup(ms, k) ==
    IF ms = <<>> THEN Absent
    ELSE LET last == ms[Len(ms)]
         IN  IF IsMember(last) /\ Members[last].key = k
             THEN Members[last].val
             ELSE Lookup(SubSeq(ms, 1, Len(ms) - 1), k)

\* member (, member)*  or nothing
WellFormedMembers(ms) ==
    \/ ms = <<>>
    \/ /\ Len(ms) % 2 = 1
       /\ \A i \in 1..Len(ms) :
            IF i % 2 = 1 THEN IsMember(ms[i]) ELSE ms[i] = COMMA

JSONparse(text) ==
    IF text = <<NULL>> THEN JsNull
    ELSE IF /\ Len(text) >= 2
            /\ text[1] = LB
            /\ text[Len(text)] = RB
            /\ WellFormedMembers(SubSeq(text, 2, Len(text) - 1))
         THEN LET ms == SubSeq(text, 2, Len(text) - 1)
              IN  Obj(Lookup(ms, "filename"), Lookup(ms, "category"))
         ELSE SyntaxError

\* String.prototype.trim on the strings of the model.
Trim(s) == IF s = " " THEN "" ELSE s

\* JavaScript truthiness of a field value and of a parsed value.
Truthy(fv) == fv.t # "absent" /\ fv.v # "" /\ fv.v # "0"
TruthyValue(j) == j.kind = "object"

(***************************************************************************)
(* The shared helpers of the provider base class: ResponseExtractor,       *)
(* ResponseValidator and the failure value.                                *)
(***************************************************************************)

\* The least index i >= from with text[i] = tok, or 0 when there is none.
RECURSIVE IndexOf(_, _, _)
IndexOf(text, tok, from) ==
    IF from > Len(text) THEN 0
    ELSE IF text[from] = tok THEN from
    ELSE IndexOf(text, tok, from + 1)

\* Strategy 2: the first brace-delimited span of the text, parsed.
BraceSpan(text) ==
    LET open == IndexOf(text, LB, 1)
        close == IF open = 0 THEN 0 ELSE IndexOf(text, RB, open + 1)
    IN  IF open = 0 \/ close = 0 THEN SyntaxError
        ELSE JSONparse(SubSeq(text, open, close))

\* Strategy 3: the inner content of a fenced code block (tagged or not), parsed.
FencedBlock(text) ==
    LET tagged == IndexOf(text, FENCE_OPEN, 1)
        plain == IndexOf(text, FENCE_CLOSE, 1)
        open == IF tagged # 0 /\ (plain = 0 \/ tagged < plain) THEN tagged ELSE plain
        close == IF open = 0 THEN 0 ELSE IndexOf(text, FENCE_CLOSE, open + 1)
    IN  IF open = 0 \/ close = 0 THEN SyntaxError
        ELSE JSONparse(SubSeq(text, open + 1, close - 1))

\* Three ordered strategies, each tried only when the previous one failed;
\* null ("no record") when all three fail.
extractJsonFromText(text) ==
    IF JSONparse(text) # SyntaxError THEN JSONparse(text)
    ELSE IF BraceSpan(text) # SyntaxError THEN BraceSpan(text)
    ELSE IF FencedBlock(text) # SyntaxError THEN FencedBlock(text)
    ELSE JsNull

\* filename must exist, be a string and be non-empty after trimming;
\* category, when present, must be a string.  Never throws.
validateJsonResponse(j) ==
    /\ j.kind = "object"
    /\ j.filename.t = "str"
    /\ Trim(j.filename.v) # ""
    /\ j.category.t \in {"absent", "str"}

\* A rename result as the caller sees it: { category, filename }.
JsonResponse(cat, fn) == [category |-> cat, filename |-> fn]

\* The FailureSentinel: filename "unknown" and no category.
FailureSentinel == JsonResponse(Absent, Str("unknown"))

\* ScreenshotRenamer.handleProviderError(error, context, type): logs and
\* resolves to the FailureSentinel whatever the error and its type.
handleProviderError(type) == FailureSentinel

(***************************************************************************)
(* Model replies.  A Stage A reply is what the endpoint answers to the     *)
(* tool-call request, a Stage B reply what it answers to the free-text     *)
(* request; either request may throw instead (transport or API error).     *)
(***************************************************************************)
Providers == {"openai", "ollama"}
FinishReasons == {"stop", "function_call", "length"}
ToolName == "rename_screenshot"

FN_login == "\"filename\":\"login-page\""
FN_shot == "\"filename\":\"shot\""
FN_fallback == "\"filename\":\"fallback-name\""
FN_empty == "\"filename\":\"\""
FN_blank == "\"filename\":\" \""
FN_num == "\"filename\":5"
CAT_web == "\"category\":\"web\""
CAT_code == "\"category\":\"code\""
CAT_misc == "\"category\":\"misc\""
CAT_num == "\"category\":7"

\* Texts a model sends as the arguments of a tool call.
ArgTexts ==
    { <<LB, FN_login, COMMA, CAT_web, RB>>,
      <<LB, CAT_misc, COMMA, FN_login, RB>>,
      <<LB, FN_login, RB>>,
      <<LB, FN_empty, RB>>,
      <<LB, FN_blank, COMMA, CAT_web, RB>>,
      <<LB, FN_num, RB>>,
      <<LB, FN_login, COMMA, CAT_num, RB>>,
      <<LB, CAT_web, RB>>,
      <<LB, FN_login>>,
      <<NULL>>,
      <<>> }

\* Texts a model sends as the content of a Stage A message.
StageAContents ==
    { <<>>,
      <<LB, FN_shot, COMMA, CAT_code, RB>>,
      <<WORD, LB, FN_shot, RB, WORD>>,
      <<LB, FN_empty, RB>>,
      <<WORD, WORD>> }

\* Texts a model sends as the content of a Stage B message.
StageBContents ==
    { <<>>,
      <<LB, FN_fallback, COMMA, CAT_code, RB>>,
      <<WORD, LB, FN_fallback, RB>>,
      <<FENCE_OPEN, LB, FN_fallback, COMMA, CAT_misc, RB, FENCE_CLOSE>>,
      <<FENCE_CLOSE, NULL, FENCE_CLOSE>>,
      <<LB, FN_blank, RB>>,
      <<WORD, LB, FN_fallback>>,
      <<WORD, LB, FN_fallback, RB, FENCE_OPEN, LB, FN_shot, RB, FENCE_CLOSE>>,
      <<LB, WORD, RB, FENCE_OPEN, LB, FN_shot, RB, FENCE_CLOSE>>,
      <<WORD, WORD>> }

ReplyA(thrown, message, finish, call, name, argsIsString, args, content) ==
    [thrown |-> thrown, message |-> message, finish |-> finish, call |-> call,
     name |-> name, argsIsString |-> argsIsString, args |-> args,
     content |-> content]

ThrownA == ReplyA(TRUE, FALSE, "stop", FALSE, "", FALSE, <<>>, <<>>)
NoMessageA == ReplyA(FALSE, FALSE, "stop", FALSE, "", FALSE, <<>>, <<>>)

\* A reply carries a tool call (with no text content) or text content only.
StageAReplies ==
    {ThrownA, NoMessageA}
    \cup { ReplyA(FALSE, TRUE, f, TRUE, ToolName, TRUE, a, <<>>) :
             f \in FinishReasons, a \in ArgTexts }
    \cup { ReplyA(FALSE, TRUE, f, TRUE, n, s, <<LB, FN_login, RB>>, <<>>) :
             f \in FinishReasons,
             n \in {ToolName, "describe_image"}, s \in BOOLEAN }
    \cup { ReplyA(FALSE, TRUE, f, FALSE, "", FALSE, <<>>, c) :
             f \in FinishReasons, c \in StageAContents }

ReplyB(thrown, message, content) ==
    [thrown |-> thrown, message |-> message, content |-> content]

StageBReplies ==
    {ReplyB(TRUE, FALSE, <<>>), ReplyB(FALSE, FALSE, <<>>)}
    \cup { ReplyB(FALSE, TRUE, c) : c \in StageBContents }

(***************************************************************************)
(* The providers.  Each operator is the continuation of the method after   *)
(* its awaited request: it ends in a returned value, in the call of        *)
(* fallbackRename (the Stage B request), or in an exception.               *)
(***************************************************************************)
Return(v) == [kind |-> "return", value |-> v]
Fallback == [kind |-> "fallback", value |-> FailureSentinel]
Throw == [kind |-> "throw", value |-> FailureSentinel]

\* Mutant of OrUnknown: && written for ||.
OrUnknownAnd(fv) == IF Truthy(fv) THEN Str("unknown") ELSE fv

\* result.filename || "unknown"
OrUnknown(fv) == IF Truthy(fv) THEN fv ELSE Str("unknown")

\* Mutant of OpenAI_renameBody: the validation test inverted.
OpenAI_renameBodyInverted(a) ==
    IF a.thrown THEN Throw
    ELSE IF ~a.message THEN Throw
    ELSE IF a.finish # "stop" /\ a.finish # "function_call" THEN Fallback
    ELSE IF ~a.call \/ a.name # ToolName THEN Fallback
    ELSE LET text == IF ~a.argsIsString THEN <<WORD>>
                     ELSE IF a.args = <<>> THEN <<LB, RB>>
                     ELSE a.args
             result == JSONparse(text)
         IN  IF result = SyntaxError THEN Fallback
             ELSE IF validateJsonResponse(result) THEN Fallback
             ELSE Return(JsonResponse(result.category, OrUnknown(result.filename)))

\* OpenAIProvider.rename, the body of the outer try block.
OpenAI_renameBody(a) ==
    IF a.thrown THEN Throw
    ELSE IF ~a.message THEN Throw
    ELSE IF a.finish # "stop" /\ a.finish # "function_call" THEN Fallback
    ELSE IF ~a.call \/ a.name # ToolName THEN Fallback
    ELSE LET \* JSON.parse(fnCall.arguments || "{}"); arguments that are not a
             \* string are converted to one, "[object Object]".
             text == IF ~a.argsIsString THEN <<WORD>>
                     ELSE IF a.args = <<>> THEN <<LB, RB>>
                     ELSE a.args
             result == JSONparse(text)
         IN  IF result = SyntaxError THEN Fallback
             ELSE IF ~validateJsonResponse(result) THEN Fallback
             ELSE Return(JsonResponse(result.category, OrUnknown(result.filename)))

\* OpenAIProvider.rename: the outer catch turns any exception into fallbackRename.
OpenAI_rename(a) ==
    IF OpenAI_renameBody(a).kind = "throw" THEN Fallback ELSE OpenAI_renameBody(a)

\* OllamaProvider.rename, the body of the inner try block.
Ollama_renameBody(a) ==
    IF a.thrown THEN Throw
    ELSE IF a.message /\ a.call
    THEN IF a.name # ToolName THEN Fallback
         ELSE IF ~a.argsIsString THEN Fallback
         ELSE LET result == JSONparse(a.args)
              IN  IF result = SyntaxError THEN Fallback
                  ELSE IF ~validateJsonResponse(result) THEN Fallback
                  ELSE Return(JsonResponse(result.category, OrUnknown(result.filename)))
    ELSE IF a.message /\ a.content # <<>>
    THEN LET extractedJson == extractJsonFromText(a.content)
         IN  IF ~TruthyValue(extractedJson) THEN Fallback
             ELSE IF ~validateJsonResponse(extractedJson) THEN Fallback
             ELSE Return(JsonResponse(extractedJson.category, extractedJson.filename))
    ELSE Return(handleProviderError("error"))

\* Mutant of Ollama_rename: no catch around the request, an exception
\* leaves rename.
Ollama_renameUncaught(a) == Ollama_renameBody(a)

\* OllamaProvider.rename: both catch blocks call fallbackRename.
Ollama_rename(a) ==
    IF Ollama_renameBody(a).kind = "throw" THEN Fallback ELSE Ollama_renameBody(a)

\* Mutant of OpenAI_fallbackRenameBody: the extracted record is returned
\* without being validated.
OpenAI_fallbackRenameBodyUnvalidated(b) ==
    IF b.thrown THEN Throw
    ELSE IF ~b.message \/ b.content = <<>> THEN Return(handleProviderError("error"))
    ELSE LET extractedJson == extractJsonFromText(b.content)
         IN  IF ~TruthyValue(extractedJson)
             THEN Return(handleProviderError("parsing-error"))
             ELSE Return(JsonResponse(extractedJson.category, extractedJson.filename))

\* Mutant of OpenAI_fallbackRenameBody: the content is parsed as a whole,
\* without the extractor and its later strategies.
OpenAI_fallbackRenameBodyWholeText(b) ==
    IF b.thrown THEN Throw
    ELSE IF ~b.message \/ b.content = <<>> THEN Return(handleProviderError("error"))
    ELSE LET extractedJson == JSONparse(b.content)
         IN  IF ~TruthyValue(extractedJson)
             THEN Return(handleProviderError("parsing-error"))
             ELSE IF ~validateJsonResponse(extractedJson)
             THEN Return(handleProviderError("invalid-format"))
             ELSE Return(JsonResponse(extractedJson.category, extractedJson.filename))

\* OpenAIProvider.fallbackRename, the body of its try block.
OpenAI_fallbackRenameBody(b) ==
    IF b.thrown THEN Throw
    ELSE IF ~b.message \/ b.content = <<>> THEN Return(handleProviderError("error"))
    ELSE LET extractedJson == extractJsonFromText(b.content)
         IN  IF ~TruthyValue(extractedJson)
             THEN Return(handleProviderError("parsing-error"))
             ELSE IF ~validateJsonResponse(extractedJson)
             THEN Return(handleProviderError("invalid-format"))
             ELSE Return(JsonResponse(extractedJson.category, extractedJson.filename))

\* Mutant of OpenAI_fallbackRename: no catch around the request.
OpenAI_fallbackRenameUncaught(b) == OpenAI_fallbackRenameBody(b)

\* OpenAIProvider.fallbackRename: the catch returns handleProviderError.
OpenAI_fallbackRename(b) ==
    IF OpenAI_fallbackRenameBody(b).kind = "throw"
    THEN Return(handleProviderError("error"))
    ELSE OpenAI_fallbackRenameBody(b)

\* Mutant of Ollama_fallbackRenameBody: the extracted record is returned
\* without being validated.
Ollama_fallbackRenameBodyUnvalidated(b) ==
    IF b.thrown THEN Throw
    ELSE IF ~b.message \/ b.content = <<>> THEN Return(handleProviderError("error"))
    ELSE LET extractedJson == extractJsonFromText(b.content)
         IN  IF ~TruthyValue(extractedJson)
             THEN Return(handleProviderError("parsing-error"))
             ELSE Return(JsonResponse(extractedJson.category, extractedJson.filename))

\* OllamaProvider.fallbackRename, the body of its try block.
Ollama_fallbackRenameBody(b) ==
    IF b.thrown THEN Throw
    ELSE IF ~b.message \/ b.content = <<>> THEN Return(handleProviderError("error"))
    ELSE LET extractedJson == extractJsonFromText(b.content)
         IN  IF ~TruthyValue(extractedJson)
             THEN Return(handleProviderError("parsing-error"))
             ELSE IF ~validateJsonResponse(extractedJson)
             THEN Return(handleProviderError("invalid-format"))
             ELSE Return(JsonResponse(extractedJson.category, extractedJson.filename))

\* OllamaProvider.fallbackRename: the catch returns handleProviderError.
Ollama_fallbackRename(b) ==
    IF Ollama_fallbackRenameBody(b).kind = "throw"
    THEN Return(handleProviderError("error"))
    ELSE Ollama_fallbackRenameBody(b)

rename(p, a) == IF p = "openai" THEN OpenAI_rename(a) ELSE Ollama_rename(a)
fallbackRename(p, b) ==
    IF p = "openai" THEN OpenAI_fallbackRename(b) ELSE Ollama_fallbackRename(b)

(***************************************************************************)
(* One rename call per provider, both against the same endpoint behaviour. *)
(***************************************************************************)
VARIABLES
    endpoint,   \* the endpoint's answers: [A |-> Stage A reply, B |-> Stage B reply]
    rpc,        \* per provider: "idle", "stageA", "stageB", "resolved", "rejected"
    requests,   \* per provider: the requests issued so far, in order
    resolved,   \* per provider: the value the returned promise resolved to
    options,    \* the CLI options: [watch, retroactive]
    provider,   \* options.provider: the renamer initializeProvider created
    files,      \* the file system: path -> content of the file there
    mainPc,     \* startWatcher: "start", "scan", "watching", "returned"
    scanList,   \* the names readdir returned
    scanIdx,    \* the index of the name whose lstat is awaited
    scanCount,  \* filesToProcessCount
    pushed,     \* every path pushed to the queue, in push order (item = index)
    tasks,      \* the queue's waiting items
    inflight,   \* item -> the processFile execution working on it
    finished,   \* the items whose worker callback has run
    creates,    \* how many files the user has created in the watch directory
    exited,     \* "no", or the code process.exit was called with
    startup,    \* what the process was launched with: [fileNameRegex,
                \* credentials, watchPath]
    watchPath,  \* what stands at options.watchdir: "directory", "file", "missing"
    dateIn,     \* the arguments of one getDateFromScreenshot call
    dateOut,    \* [done, date]: whether the call returned, and what
    outdir,     \* options.outdir, the resolved output directory
    fileNameRegex,  \* the RegExp startWatcher compiled: [pattern, flags,
                \* lastIndex]
    tested,     \* the fileNameRegex.test calls of the scan and of the
                \* watcher so far: [name, by, match], in call order
    added       \* the paths whose 'add' event the watcher has yet to deliver

provVars == <<endpoint, rpc, requests, resolved>>
sysVars == <<options, provider, files, mainPc, scanList, scanIdx, scanCount,
             pushed, tasks, inflight, finished, creates, exited>>
bootVars == <<startup, watchPath>>
dateVars == <<dateIn, dateOut>>
cfgVars == <<outdir, fileNameRegex, tested, added>>
vars == <<provVars, sysVars, bootVars, dateVars, cfgVars, cfgVars>>

\* A launch with nothing wrong; the watch directory exists.
StartupOk == [fileNameRegex |-> "ok", credentials |-> TRUE, watchPath |-> "directory"]
BootAtRest == startup = StartupOk /\ watchPath = "directory"

\* No getDateFromScreenshot call is under study.
DateAtRest ==
    /\ dateIn = [fileName |-> <<>>, thisYear |-> 0, tz |-> 0,
                 stat |-> [y |-> 0, m |-> 0, d |-> 0]]
    /\ dateOut = [done |-> FALSE, date |-> <<>>]

\* config.fileNameRegex as shipped, /^Screenshot.*\.png$/i, and a pattern a
\* user may configure instead, /\.png$/i.
DefaultPattern == "^Screenshot.*\\.png$"
AnyPngPattern == "\\.png$"

\* The default layout: outdir is <watchdir>/Screenshots, the shipped
\* pattern is compiled, no test was made, no event is pending.
CfgAtRest ==
    /\ outdir = "watch/Screenshots"
    /\ fileNameRegex = [pattern |-> DefaultPattern, flags |-> {"i"}, lastIndex |-> 0]
    /\ tested = <<>>
    /\ added = {}

NoFiles == [q \in {} |-> 0]

\* The rest of the program while only the providers are exercised.
SystemAtRest ==
    /\ options = [watch |-> FALSE, retroactive |-> FALSE]
    /\ provider = "openai"
    /\ files = NoFiles
    /\ mainPc = "start"
    /\ scanList = <<>>
    /\ scanIdx = 0
    /\ scanCount = 0
    /\ pushed = <<>>
    /\ tasks = <<>>
    /\ inflight = NoFiles
    /\ finished = {}
    /\ creates = 0
    /\ exited = "no"
    /\ BootAtRest

ToolCallRequest == "tool-call"
FreeTextRequest == "free-text"

\* What a request carries: the system message, the text of the user
\* message (this.prompt and what is appended to it), the image, and whether
\* a tool is offered.
RequestBody(system, text, image, tools) ==
    [system |-> system, text |-> text, image |-> image, tools |-> tools]

\* The request OpenAIProvider builds in rename and in fallbackRename.
OpenAI_request(request) ==
    RequestBody("", <<"this.prompt">>, "base64", request = ToolCallRequest)

\* The request OllamaProvider builds in rename and in fallbackRename.
Ollama_request(request) ==
    IF request = ToolCallRequest
    THEN RequestBody("You MUST use the rename_screenshot function",
                     <<"this.prompt">>, "base64", TRUE)
    ELSE RequestBody("respond with JSON containing 'filename'",
                     <<"this.prompt", "\nRespond ONLY with JSON in the format: ...">>,
                     "base64", FALSE)

RequestOf(p, request) ==
    IF p = "openai" THEN OpenAI_request(request) ELSE Ollama_request(request)

ProviderInit ==
    /\ CfgAtRest
    /\ endpoint \in [A : StageAReplies, B : StageBReplies]
    /\ rpc = [p \in Providers |-> "idle"]
    /\ requests = [p \in Providers |-> <<>>]
    /\ resolved = [p \in Providers |-> FailureSentinel]
    /\ SystemAtRest
    /\ DateAtRest

\* rename(base64, detail) is called: the Stage A request is issued and awaited.
CallRename(p) ==
    /\ rpc[p] = "idle"
    /\ rpc' = [rpc EXCEPT ![p] = "stageA"]
    /\ requests' = [requests EXCEPT ![p] = <<ToolCallRequest>>]
    /\ UNCHANGED <<endpoint, resolved, sysVars, bootVars, dateVars, cfgVars>>

\* The Stage A request settles: rename returns, or calls fallbackRename,
\* which issues the Stage B request and awaits it.
StageASettles(p) ==
    /\ rpc[p] = "stageA"
    /\ LET o == rename(p, endpoint.A)
       IN  /\ rpc' = [rpc EXCEPT ![p] =
                        CASE o.kind = "return" -> "resolved"
                          [] o.kind = "fallback" -> "stageB"
                          [] OTHER -> "rejected"]
           /\ requests' = [requests EXCEPT ![p] =
                        IF o.kind = "fallback" THEN Append(@, FreeTextRequest) ELSE @]
           /\ resolved' = [resolved EXCEPT ![p] =
                        IF o.kind = "return" THEN o.value ELSE @]
    /\ UNCHANGED <<endpoint, sysVars, bootVars, dateVars, cfgVars>>

\* The Stage B request settles: fallbackRename returns.
StageBSettles(p) ==
    /\ rpc[p] = "stageB"
    /\ LET o == fallbackRename(p, endpoint.B)
       IN  /\ rpc' = [rpc EXCEPT ![p] =
                        IF o.kind = "return" THEN "resolved" ELSE "rejected"]
           /\ resolved' = [resolved EXCEPT ![p] =
                        IF o.kind = "return" THEN o.value ELSE @]
    /\ UNCHANGED <<endpoint, requests, sysVars, bootVars, dateVars, cfgVars>>

ProviderNext ==
    \/ \E p \in Providers : CallRename(p)
    \/ \E p \in Providers : StageASettles(p)
    \/ \E p \in Providers : StageBSettles(p)

SpecProvider == ProviderInit /\ [][ProviderNext]_vars

(***************************************************************************)
(* Properties of the providers (checked under SpecProvider).               *)
(***************************************************************************)
Settled(p) == rpc[p] \in {"resolved", "rejected"}

\* A record the result schema admits: filename a string that is not empty
\* after trimming, category absent or a string.
ValidRecord(j) ==
    /\ j.kind = "object"
    /\ j.filename.t = "str"
    /\ j.filename.v \notin {"", " "}
    /\ j.category.t \in {"absent", "str"}

\* The reply carries a call to rename_screenshot whose arguments are JSON
\* text that parses to a valid record.
CarriesValidCall(a) ==
    /\ ~a.thrown /\ a.message /\ a.call
    /\ a.name = "rename_screenshot"
    /\ a.argsIsString
    /\ ValidRecord(JSONparse(a.args))

FinishedNormally(a) == a.finish \in {"stop", "function_call"}

ReturnsCallRecord(p) ==
    /\ rpc[p] = "resolved"
    /\ resolved[p].category = JSONparse(endpoint.A.args).category
    /\ resolved[p].filename = JSONparse(endpoint.A.args).filename

\* C1 as stated: whenever the Stage A reply carries a call to rename_screenshot
\* whose arguments parse to a valid record, rename returns exactly that
\* record's category and filename, for both providers.
C1_AnyFinishReason ==
    \A p \in Providers :
        Settled(p) /\ CarriesValidCall(endpoint.A) => ReturnsCallRecord(p)

\* C1 amended: whenever the Stage A reply finished with "stop" or
\* "function call" and carries a call to rename_screenshot whose arguments
\* parse to a valid record, rename returns exactly that record's category
\* (absent stays absent) and filename, for both providers.
C1_ValidCallReturned ==
    \A p \in Providers :
        Settled(p) /\ CarriesValidCall(endpoint.A) /\ FinishedNormally(endpoint.A)
            => ReturnsCallRecord(p)

C1_Witness ==
    /\ CarriesValidCall(endpoint.A) /\ FinishedNormally(endpoint.A)
    /\ JSONparse(endpoint.A.args).category = Absent
    /\ \A p \in Providers :
         rpc[p] = "resolved" /\ resolved[p] = JsonResponse(Absent, Str("login-page"))

\* The reply names a failure of the tool call: an abnormal finish reason, a
\* call under another name, or arguments that are not parseable.
ToolCallFailure(a) ==
    /\ ~a.thrown /\ a.message
    /\ \/ ~FinishedNormally(a)
       \/ a.call /\ a.name # "rename_screenshot"
       \/ a.call /\ a.args # <<>> /\ JSONparse(a.args) = SyntaxError

\* C2: for both providers, a Stage A reply with an abnormal finish reason, a
\* wrongly named call or unparseable arguments makes rename issue the
\* Stage B request and return what Stage B resolves to, without raising.
C2_FailureFallsThrough ==
    \A p \in Providers :
        Settled(p) /\ ToolCallFailure(endpoint.A)
            => /\ rpc[p] = "resolved"
               /\ requests[p] = <<ToolCallRequest, FreeTextRequest>>
               /\ resolved[p] = fallbackRename(p, endpoint.B).value

\* C3: for both providers, a Stage A reply with no tool invocation at all, or
\* whose parsed arguments fail validation, makes rename issue the Stage B
\* request; Stage A returns nothing itself.
C3_NoCallFallsThrough ==
    \A p \in Providers :
        /\ Settled(p)
        /\ ~endpoint.A.thrown /\ endpoint.A.message
        /\ \/ ~endpoint.A.call
           \/ /\ endpoint.A.call /\ endpoint.A.argsIsString
              /\ JSONparse(endpoint.A.args) # SyntaxError
              /\ ~ValidRecord(JSONparse(endpoint.A.args))
        => requests[p] = <<ToolCallRequest, FreeTextRequest>>

\* A stage yielded a validator-accepted record: the call ended at that stage
\* and the stage's reply holds a valid record.
AcceptedAtStageA(p) ==
    /\ Len(requests[p]) = 1
    /\ ~endpoint.A.thrown /\ endpoint.A.message
    /\ \/ endpoint.A.call /\ ValidRecord(JSONparse(endpoint.A.args))
       \/ ~endpoint.A.call /\ ValidRecord(extractJsonFromText(endpoint.A.content))

AcceptedAtStageB(p) ==
    /\ Len(requests[p]) = 2
    /\ ~endpoint.B.thrown /\ endpoint.B.message
    /\ ValidRecord(extractJsonFromText(endpoint.B.content))

\* C4: whenever neither stage yields a validator-accepted record, rename
\* returns exactly the FailureSentinel: filename "unknown", no category.
C4_SentinelOnFailure ==
    \A p \in Providers :
        Settled(p) /\ ~AcceptedAtStageA(p) /\ ~AcceptedAtStageB(p)
            => /\ rpc[p] = "resolved"
               /\ resolved[p] = [category |-> Absent, filename |-> Str("unknown")]

C4_Witness ==
    /\ endpoint.A.finish = "length"
    /\ endpoint.B.content = <<LB, FN_blank, RB>>
    /\ \A p \in Providers :
         /\ rpc[p] = "resolved" /\ Len(requests[p]) = 2
         /\ ~AcceptedAtStageB(p)
         /\ resolved[p] = FailureSentinel

\* C5: rename never rejects: whatever the endpoint does at Stage A and at
\* Stage B, the promise resolves to a result or to the FailureSentinel.
C5_NeverRejects ==
    \A p \in Providers :
        /\ rpc[p] # "rejected"
        /\ Settled(p) =>
             \/ resolved[p] = FailureSentinel
             \/ /\ resolved[p].filename.t = "str"
                /\ resolved[p].filename.v \notin {"", " "}

C5_Witness ==
    /\ endpoint.A.thrown /\ endpoint.B.thrown
    /\ \A p \in Providers : rpc[p] = "resolved" /\ resolved[p] = FailureSentinel

\* The tool call of the reply is one Stage A accepts under both providers.
ToolCallValidates(a) == CarriesValidCall(a) /\ FinishedNormally(a)

\* C6: at most two requests per rename, the tool-call request first; the
\* free-text request only after Stage A failed; exactly one request when the
\* Stage A record validates.
C6_LazyChain ==
    \A p \in Providers :
        /\ Len(requests[p]) <= 2
        /\ (rpc[p] = "idle") = (requests[p] = <<>>)
        /\ requests[p] # <<>> => requests[p][1] = ToolCallRequest
        /\ Len(requests[p]) = 2 =>
             /\ requests[p][2] = FreeTextRequest
             /\ rpc[p] # "stageA"
             /\ ~ToolCallValidates(endpoint.A)
        /\ Settled(p) /\ ToolCallValidates(endpoint.A) =>
             requests[p] = <<ToolCallRequest>>

C6_Witness ==
    /\ ToolCallValidates(endpoint.A)
    /\ \A p \in Providers : rpc[p] = "resolved" /\ requests[p] = <<ToolCallRequest>>

\* C7: for every pair of model replies the two providers go through the same
\* stages and return the same result.
C7_ProvidersEquivalent ==
    Settled("openai") /\ Settled("ollama")
        => /\ requests["openai"] = requests["ollama"]
           /\ rpc["openai"] = rpc["ollama"]
           /\ resolved["openai"] = resolved["ollama"]

(***************************************************************************)
(* The file system.  A base name is kept in its parts: processFile builds  *)
(* `${date}-${filename}${ext}` and renameFile inserts `-${count}` before   *)
(* the extension.  A path is a directory and a base name.                  *)
(***************************************************************************)
BaseName(date, dashed, stem, count, ext) ==
    [date |-> date, dashed |-> dashed, stem |-> stem, count |-> count, ext |-> ext]

\* A name as the user (or macOS) wrote it.
Original(stem, ext) == BaseName("", FALSE, stem, 0, ext)

ShotDated == Original("Screenshot 2024-01-02 at 10.00.00", ".png")
ShotPlain == Original("Screenshot", ".png")
Notes == Original("notes", ".txt")
WatchNames == {ShotDated, ShotPlain, Notes}

\* A folder in the watch directory whose name matches the pattern, and what
\* the file system holds at the path of a directory.
ShotFolder == Original("Screenshot folder", ".png")
Directory == -1

WatchDir == "watch"
\* outputDir = options.outdir and originalDir = path.join(outputDir,
\* "original"), as main hands them to startWatcher.
OutDir == outdir
OriginalDir == OutDir \o "/original"
Path(dir, name) == [dir |-> dir, name |-> name]

\* config.categories: the configured category keys.
CategoryKeys == {"code", "reference", "text", "web", "youtube", "other"}

\* path.join(outputDir, category)
CategoryDir(category) == [c \in CategoryKeys |-> OutDir \o "/" \o c][category]

\* Mutant of RegexTest: every name matches.
RegexTestAnyName(name) == TRUE

\* fileNameRegex.test(basename): the default /^Screenshot.*\.png$/i wants a
\* name that begins with Screenshot (a name the pipeline wrote begins with
\* its date or with a dash), /\.png$/i only the extension.
RegexTest(name) ==
    IF fileNameRegex.pattern = DefaultPattern
    THEN /\ ~name.dashed
         /\ name.stem \in {"Screenshot 2024-01-02 at 10.00.00", "Screenshot",
                           "Screenshot folder"}
         /\ name.ext = ".png"
    ELSE name.ext = ".png"

\* The calendar date embedded in a file name, "" when there is none.
EmbeddedDate(name) ==
    IF name.dashed THEN name.date
    ELSE IF name.stem = "Screenshot 2024-01-02 at 10.00.00" THEN "2024-01-02"
    ELSE ""

\* What fs.statSync(origFilename) can yield: the path is the bare base name,
\* resolved against the working directory.  "" stands for a thrown error.
StatOutcomes == {"", "2024-03-04"}

\* getDateFromScreenshot: the date of the file name, else the creation date
\* from the stat call, else "".
getDateFromScreenshot(name, stat) ==
    IF EmbeddedDate(name) # "" THEN EmbeddedDate(name) ELSE stat

\* Mutant of FinalPath: the loop adds 2 to count.
RECURSIVE FinalPathSkips(_, _, _)
FinalPathSkips(fsys, newFilePath, count) ==
    LET finalPath == IF count = 0 THEN newFilePath
                     ELSE Path(newFilePath.dir,
                               [newFilePath.name EXCEPT !.count = count])
    IN  IF finalPath \in DOMAIN fsys
        THEN FinalPathSkips(fsys, newFilePath, count + 2)
        ELSE finalPath

\* Mutant of FinalPath: overwrite taken as true, the loop never runs.
FinalPathOverwrite(fsys, newFilePath, count) == newFilePath

\* renameFile's loop: number up while a file exists at the path.
RECURSIVE FinalPath(_, _, _)
FinalPath(fsys, newFilePath, count) ==
    LET finalPath == IF count = 0 THEN newFilePath
                     ELSE Path(newFilePath.dir,
                               [newFilePath.name EXCEPT !.count = count])
    IN  IF finalPath \in DOMAIN fsys
        THEN FinalPath(fsys, newFilePath, count + 1)
        ELSE finalPath

\* Mutant of CopyFile: the backup is made by renaming the source.
CopyFileMoves(fsys, src, dest) ==
    [q \in (DOMAIN fsys \ {src}) \cup {dest} |->
        IF q = dest THEN fsys[src] ELSE fsys[q]]

\* The file system after fs.promises.copyFile(src, dest) succeeded.
CopyFile(fsys, src, dest) ==
    [q \in DOMAIN fsys \cup {dest} |-> IF q = dest THEN fsys[src] ELSE fsys[q]]

\* The file system after fs.promises.rename(src, dest) succeeded.
MoveFile(fsys, src, dest) ==
    [q \in (DOMAIN fsys \ {src}) \cup {dest} |->
        IF q = dest THEN fsys[src] ELSE fsys[q]]

\* Mutant of RenameFailed: the failed move has written the target and left
\* the source (a copy-then-unlink that stopped half way).
RenameFailedHalfMoved(fsys, src, dest) ==
    [q \in DOMAIN fsys \cup {dest} |-> IF q = dest THEN fsys[src] ELSE fsys[q]]

\* The file system after fs.promises.rename(src, dest) rejected: rename is
\* one system call, nothing has changed.
RenameFailed(fsys, src, dest) == fsys

(***************************************************************************)
(* The processing queue, processFile, the retroactive scan and the         *)
(* watcher.                                                                *)
(***************************************************************************)
MaxCreates == 1

\* async.queue(worker, 1)
Concurrency == 1

\* What the endpoint may answer while a file is classified.
EndpointBehaviours ==
    { [A |-> ReplyA(FALSE, TRUE, "stop", TRUE, ToolName, TRUE,
                    <<LB, FN_login, COMMA, CAT_web, RB>>, <<>>),
       B |-> ReplyB(TRUE, FALSE, <<>>)],
      [A |-> ReplyA(FALSE, TRUE, "function_call", TRUE, ToolName, TRUE,
                    <<LB, CAT_misc, COMMA, FN_login, RB>>, <<>>),
       B |-> ReplyB(TRUE, FALSE, <<>>)],
      [A |-> ReplyA(FALSE, TRUE, "stop", TRUE, "describe_image", TRUE,
                    <<LB, FN_login, RB>>, <<>>),
       B |-> ReplyB(FALSE, TRUE, <<WORD, LB, FN_login, RB>>)],
      [A |-> ThrownA,
       B |-> ReplyB(FALSE, TRUE, <<WORD, WORD>>)] }

\* await renamer.rename(base64string, detail): Stage A, then Stage B when
\* Stage A falls through.
Classify(p, e) ==
    IF rename(p, e.A).kind = "fallback" THEN fallbackRename(p, e.B)
    ELSE rename(p, e.A)

\* Classify on every provider and endpoint behaviour of the model.
Classified == [p \in Providers, e \in EndpointBehaviours |-> Classify(p, e)]

NoPath == Path("", Original("", ""))

\* A processFile execution: the await it is suspended at and its locals.
Execution(pc, filePath, result, newPath, finalPath) ==
    [pc |-> pc, filePath |-> filePath, result |-> result, newPath |-> newPath,
     finalPath |-> finalPath]

\* The locals before renamer.rename has returned.
NoResult == JsonResponse(Absent, Absent)

Without(f, id) == [j \in DOMAIN f \ {id} |-> f[j]]
With(f, id, x) == [j \in DOMAIN f \cup {id} |-> IF j = id THEN x ELSE f[j]]

\* queue.idle(): nothing waiting and nothing running.
Idle(waiting, running) == waiting = <<>> /\ DOMAIN running = {}

\* queue.push(filePath)
Push(filePath) ==
    /\ pushed' = Append(pushed, filePath)
    /\ tasks' = Append(tasks, Len(pushed) + 1)

\* Mutant of CanStartWorker: no limit on the running workers.
CanStartWorkerUnlimited == TRUE

\* The queue starts a worker only while fewer than Concurrency are running.
CanStartWorker == Cardinality(DOMAIN inflight) < Concurrency

\* Mutant of NextTask: the newest item first.
NextTaskNewest == tasks[Len(tasks)]

\* The item the queue hands to the next worker.
NextTask == Head(tasks)

\* Mutant of Dequeue: the item handed to a worker stays in the queue.
DequeueKeeps(id) == tasks

\* The waiting items once the queue has handed item id to a worker.
Dequeue(id) == SelectSeq(tasks, LAMBDA t : t # id)

\* Mutant of WorkerCallback: the drain handler exits without testing
\* options.watch.
WorkerCallbackExits(id, waiting) ==
    /\ inflight' = Without(inflight, id)
    /\ finished' = finished \cup {id}
    /\ exited' = IF Idle(waiting, Without(inflight, id)) THEN "0" ELSE exited

\* Mutant of WorkerCallback: the drain handler never exits.
WorkerCallbackStays(id, waiting) ==
    /\ inflight' = Without(inflight, id)
    /\ finished' = finished \cup {id}
    /\ exited' = exited

\* processFile resolved: the worker's callback runs, and the drain handler
\* when the queue became idle; it exits unless --watch was given.
WorkerCallback(id, waiting) ==
    /\ inflight' = Without(inflight, id)
    /\ finished' = finished \cup {id}
    /\ exited' = IF Idle(waiting, Without(inflight, id)) /\ ~options.watch
                 THEN "0" ELSE exited

\* The queue takes the next item and calls processFile, which runs up to its
\* first await (readFile) or returns at once for a non-matching name.
StartWorker ==
    /\ exited = "no"
    /\ tasks # <<>>
    /\ CanStartWorker
    /\ LET id == NextTask
           rest == Dequeue(id)
       IN  /\ tasks' = rest
           /\ IF RegexTest(pushed[id].name)
              THEN /\ inflight' = With(inflight, id,
                                       Execution("readFile", pushed[id], NoResult,
                                                 NoPath, NoPath))
                   /\ UNCHANGED <<finished, exited>>
              ELSE WorkerCallback(id, rest)
    /\ UNCHANGED <<provVars, bootVars, dateVars, cfgVars, options, provider,
                   files, mainPc, scanList, scanIdx,
                   scanCount, pushed, creates>>

\* Mutant of ReadFileSettles: the catch block removes the unreadable source
\* before processFile resolves.
ReadFileSettlesUnlinks(id) ==
    /\ exited = "no"
    /\ id \in DOMAIN inflight
    /\ inflight[id].pc = "readFile"
    /\ \E ok \in BOOLEAN :
         /\ ok => /\ inflight[id].filePath \in DOMAIN files
                  /\ files[inflight[id].filePath] # Directory
         /\ IF ok
            THEN /\ inflight' = [inflight EXCEPT ![id].pc = "rename"]
                 /\ UNCHANGED <<finished, exited, files>>
            ELSE /\ WorkerCallback(id, tasks)
                 /\ files' = Without(files, inflight[id].filePath)
    /\ UNCHANGED <<provVars, bootVars, dateVars, cfgVars, options, provider,
                   mainPc, scanList, scanIdx,
                   scanCount, pushed, tasks, creates>>

\* Mutant of ReadFileSettles: no try/catch around the await, so a failed
\* read rejects processFile's caller chain and ends the process with code 1.
ReadFileSettlesUncaught(id) ==
    /\ exited = "no"
    /\ id \in DOMAIN inflight
    /\ inflight[id].pc = "readFile"
    /\ \E ok \in BOOLEAN :
         /\ ok => /\ inflight[id].filePath \in DOMAIN files
                  /\ files[inflight[id].filePath] # Directory
         /\ IF ok
            THEN /\ inflight' = [inflight EXCEPT ![id].pc = "rename"]
                 /\ UNCHANGED <<finished, exited>>
            ELSE /\ exited' = "1"
                 /\ UNCHANGED <<inflight, finished>>
    /\ UNCHANGED <<provVars, bootVars, dateVars, cfgVars, options, provider,
                   files, mainPc, scanList, scanIdx,
                   scanCount, pushed, tasks, creates>>

\* readFile settles: the provider is called, or the error is logged.
ReadFileSettles(id) ==
    /\ exited = "no"
    /\ id \in DOMAIN inflight
    /\ inflight[id].pc = "readFile"
    /\ \E ok \in BOOLEAN :
         /\ ok => /\ inflight[id].filePath \in DOMAIN files
                  /\ files[inflight[id].filePath] # Directory
         /\ IF ok
            THEN /\ inflight' = [inflight EXCEPT ![id].pc = "rename"]
                 /\ UNCHANGED <<finished, exited>>
            ELSE WorkerCallback(id, tasks)
    /\ UNCHANGED <<provVars, bootVars, dateVars, cfgVars, options, provider,
                   files, mainPc, scanList, scanIdx,
                   scanCount, pushed, tasks, creates>>

\* Mutant of NewPath: the category is not looked at, always outputDir.
NewPathIgnoresCategory(origName, result, date) ==
    Path(OutDir, BaseName(date, TRUE, result.filename.v, 0, origName.ext))

\* `${date}-${filename}${path.extname(filePath)}` under the category's
\* directory when the category is a configured key, else under outputDir.
NewPath(origName, result, date) ==
    Path(IF Truthy(result.category) /\ result.category.v \in CategoryKeys
         THEN CategoryDir(result.category.v)
         ELSE OutDir,
         BaseName(date, TRUE, result.filename.v, 0, origName.ext))

\* renamer.rename settles: without a filename the file is skipped; otherwise
\* the new path is built and the backup copy is started.
RenameSettles(id) ==
    /\ exited = "no"
    /\ id \in DOMAIN inflight
    /\ inflight[id].pc = "rename"
    /\ \E e \in EndpointBehaviours, stat \in StatOutcomes :
         LET o == Classified[provider, e]
             origName == inflight[id].filePath.name
         IN  IF o.kind = "return" /\ Truthy(o.value.filename)
             THEN /\ inflight' = [inflight EXCEPT
                        ![id].pc = "copyFile",
                        ![id].result = o.value,
                        ![id].newPath =
                            NewPath(origName, o.value,
                                    getDateFromScreenshot(origName, stat))]
                  /\ UNCHANGED <<finished, exited>>
             ELSE WorkerCallback(id, tasks)
    /\ UNCHANGED <<provVars, bootVars, dateVars, cfgVars, options, provider,
                   files, mainPc, scanList, scanIdx,
                   scanCount, pushed, tasks, creates>>

\* Mutant of BackupPath: outputDir joined in place of originalDir.
BackupPathInOutDir(filePath) == Path(OutDir, filePath.name)

\* path.join(originalDir, origFilename)
BackupPath(filePath) == Path(OriginalDir, filePath.name)

\* Mutant of CopyFileSettles: no inner try/catch, so a failed copy is caught
\* by the outer catch and the item ends without the move.
CopyFileSettlesAborts(id) ==
    /\ exited = "no"
    /\ id \in DOMAIN inflight
    /\ inflight[id].pc = "copyFile"
    /\ \E ok \in BOOLEAN :
         /\ ok => inflight[id].filePath \in DOMAIN files
         /\ IF ok
            THEN /\ files' = CopyFile(files, inflight[id].filePath,
                                      BackupPath(inflight[id].filePath))
                 /\ inflight' = [inflight EXCEPT
                        ![id].pc = "renameFile",
                        ![id].finalPath = FinalPath(files', inflight[id].newPath, 0)]
                 /\ UNCHANGED <<finished, exited>>
            ELSE /\ files' = files
                 /\ WorkerCallback(id, tasks)
    /\ UNCHANGED <<provVars, bootVars, dateVars, cfgVars, options, provider,
                   mainPc, scanList, scanIdx,
                   scanCount, pushed, tasks, creates>>

\* copyFile settles (a failure is logged and ignored); renameFile then runs
\* its loop and starts the move.
CopyFileSettles(id) ==
    /\ exited = "no"
    /\ id \in DOMAIN inflight
    /\ inflight[id].pc = "copyFile"
    /\ \E ok \in BOOLEAN :
         /\ ok => inflight[id].filePath \in DOMAIN files
         /\ files' = IF ok
                     THEN CopyFile(files, inflight[id].filePath,
                                   BackupPath(inflight[id].filePath))
                     ELSE files
         /\ inflight' = [inflight EXCEPT
                ![id].pc = "renameFile",
                ![id].finalPath = FinalPath(files', inflight[id].newPath, 0)]
    /\ UNCHANGED <<provVars, bootVars, dateVars, cfgVars, options, provider,
                   mainPc, scanList, scanIdx,
                   scanCount, pushed, tasks, finished, creates, exited>>

\* fs.promises.rename settles (a failure is logged); processFile resolves.
MoveSettles(id) ==
    /\ exited = "no"
    /\ id \in DOMAIN inflight
    /\ inflight[id].pc = "renameFile"
    /\ \E ok \in BOOLEAN :
         /\ ok => inflight[id].filePath \in DOMAIN files
         /\ files' = IF ok
                     THEN MoveFile(files, inflight[id].filePath, inflight[id].finalPath)
                     ELSE RenameFailed(files, inflight[id].filePath,
                                       inflight[id].finalPath)
         /\ added' = IF ok /\ mainPc = "watching"
                            /\ inflight[id].finalPath.dir = WatchDir
                      THEN added \cup {inflight[id].finalPath}
                      ELSE added
    /\ WorkerCallback(id, tasks)
    /\ UNCHANGED <<provVars, bootVars, dateVars, outdir, fileNameRegex, tested,
                   options, provider, mainPc, scanList, scanIdx,
                   scanCount, pushed, tasks, creates>>

\* The order in which readdir lists the files of the watch directory, and
\* all its entries.
NameOrder == <<ShotDated, ShotPlain, Notes>>
ListOrder == NameOrder \o <<ShotFolder>>

\* The bytes of the files present at the start, and of the k-th created file.
InitialData(name) == CHOOSE i \in 1..Len(NameOrder) : NameOrder[i] = name
CreatedData(k) == Len(NameOrder) + k

\* A file an earlier run may have left in a category directory, and its bytes.
EarlierOutputs ==
    {Path(CategoryDir("web"), BaseName("2024-01-02", TRUE, "login-page", 0, ".png"))}
EarlierData == 0

\* startWatcher up to its first await inside the scan loop: with
\* --retroactive the directory is listed; an empty listing ends the scan at
\* once.  Without --retroactive the watcher is started.
StartWatcher ==
    /\ exited = "no"
    /\ mainPc = "start"
    /\ LET listing == SelectSeq(ListOrder,
                                LAMBDA n : Path(WatchDir, n) \in DOMAIN files)
       IN  IF options.retroactive /\ listing # <<>>
           THEN /\ mainPc' = "scan"
                /\ scanList' = listing
                /\ scanIdx' = 1
                /\ UNCHANGED exited
           ELSE /\ mainPc' = IF options.watch THEN "watching" ELSE "returned"
                /\ exited' = IF ~options.watch /\ Idle(tasks, inflight)
                             THEN "0" ELSE exited
                /\ UNCHANGED <<scanList, scanIdx>>
    /\ UNCHANGED <<provVars, bootVars, dateVars, cfgVars, options, provider,
                   files, scanCount, pushed, tasks,
                   inflight, finished, creates>>

\* The lstat of one listed name settles: a regular file whose name matches
\* is pushed.  After the last name the scan ends: with nothing pushed and no
\* --watch the process exits; with --watch the watcher is started.
ScanStep ==
    /\ exited = "no"
    /\ mainPc = "scan"
    /\ LET name == scanList[scanIdx]
           isFile == /\ Path(WatchDir, name) \in DOMAIN files
                     /\ files[Path(WatchDir, name)] # Directory
           match == isFile /\ RegexTest(name)
           last == scanIdx = Len(scanList)
       IN  /\ IF match
              THEN Push(Path(WatchDir, name)) /\ scanCount' = scanCount + 1
              ELSE UNCHANGED <<pushed, tasks, scanCount>>
           /\ IF last
              THEN /\ mainPc' = IF options.watch THEN "watching" ELSE "returned"
                   /\ exited' = IF scanCount' = 0 /\ ~options.watch
                                   /\ Idle(tasks', inflight)
                                THEN "0" ELSE exited
                   /\ UNCHANGED scanIdx
              ELSE /\ scanIdx' = scanIdx + 1
                   /\ UNCHANGED <<mainPc, exited>>
    /\ UNCHANGED <<provVars, bootVars, dateVars, cfgVars, options, provider,
                   files, scanList, inflight,
                   finished, creates>>

\* A file appears in the watch directory and the watcher's 'add' handler
\* runs: a matching name is pushed.
WatcherAdd(name) ==
    /\ exited = "no"
    /\ mainPc = "watching"
    /\ creates < MaxCreates
    /\ Path(WatchDir, name) \notin DOMAIN files
    /\ creates' = creates + 1
    /\ files' = With(files, Path(WatchDir, name), CreatedData(creates + 1))
    /\ IF RegexTest(name)
       THEN Push(Path(WatchDir, name))
       ELSE UNCHANGED <<pushed, tasks>>
    /\ UNCHANGED <<provVars, bootVars, dateVars, cfgVars, options, provider,
                   mainPc, scanList, scanIdx,
                   scanCount, inflight, finished, exited>>

\* The state when main calls startWatcher: the provider is initialized, the
\* output directories exist and hold what earlier runs left there.
Init ==
    /\ CfgAtRest
    /\ endpoint = [A |-> ThrownA, B |-> ReplyB(TRUE, FALSE, <<>>)]
    /\ rpc = [p \in Providers |-> "idle"]
    /\ requests = [p \in Providers |-> <<>>]
    /\ resolved = [p \in Providers |-> FailureSentinel]
    /\ options \in {o \in [watch : BOOLEAN, retroactive : BOOLEAN] :
                      o.watch \/ o.retroactive}
    /\ provider \in Providers
    /\ \E present \in SUBSET WatchNames, earlier \in SUBSET EarlierOutputs :
         files = [q \in {Path(WatchDir, n) : n \in present} \cup earlier |->
                     IF q.dir = WatchDir THEN InitialData(q.name) ELSE EarlierData]
    /\ mainPc = "start"
    /\ scanList = <<>>
    /\ scanIdx = 0
    /\ scanCount = 0
    /\ pushed = <<>>
    /\ tasks = <<>>
    /\ inflight = NoFiles
    /\ finished = {}
    /\ creates = 0
    /\ exited = "no"
    /\ BootAtRest
    /\ DateAtRest

Next ==
    \/ StartWatcher
    \/ ScanStep
    \/ \E name \in WatchNames : WatcherAdd(name)
    \/ StartWorker
    \/ \E id \in DOMAIN inflight : ReadFileSettles(id)
    \/ \E id \in DOMAIN inflight : RenameSettles(id)
    \/ \E id \in DOMAIN inflight : CopyFileSettles(id)
    \/ \E id \in DOMAIN inflight : MoveSettles(id)

Spec == Init /\ [][Next]_vars

(***************************************************************************)
(* Properties of the queue and of processFile (checked under Spec).        *)
(***************************************************************************)

\* C8: when rename returns the FailureSentinel, processFile skips the file:
\* it goes on neither to the backup copy nor to the move, so no file is ever
\* moved to a name built from the sentinel's filename.
C8_SentinelSkipsFile ==
    /\ \A id \in DOMAIN inflight :
          inflight[id].result = [category |-> Absent, filename |-> Str("unknown")]
              => inflight[id].pc \notin {"copyFile", "renameFile"}
    /\ \A q \in DOMAIN files : q.name.stem # "unknown"

\* C9: at most one work item is in flight, however the pushes of the scan
\* and of the watcher interleave with the item being processed.
C9_OneInFlight == Cardinality(DOMAIN inflight) <= 1

C9_Witness ==
    /\ Cardinality(DOMAIN inflight) = 1
    /\ tasks # <<>>
    /\ scanCount >= 1 /\ creates >= 1
    /\ \E id \in DOMAIN inflight : inflight[id].pc = "rename"

Started(i) == i \in DOMAIN inflight \/ i \in finished

\* C10: items are processed in arrival order: when an item has started,
\* every item pushed before it has finished.
C10_ArrivalOrder ==
    \A i, j \in 1..Len(pushed) :
        i < j /\ Started(j) => i \in finished

C10_Witness ==
    /\ Len(pushed) >= 3
    /\ scanCount >= 1 /\ creates >= 1
    /\ {1, 2} \subseteq finished
    /\ 3 \in DOMAIN inflight

\* The stations of an item's life: waiting in the queue (once), being
\* processed, done.
Waiting(i) == Cardinality({k \in 1..Len(tasks) : tasks[k] = i}) = 1
Running(i) == i \in DOMAIN inflight
Done(i) == i \in finished
Queued(i) == \E k \in 1..Len(tasks) : tasks[k] = i

\* C11: every push leads to exactly one processFile execution of its item:
\* the item is waiting, then running, then done, in exactly one of these at
\* any time and never going back (no re-queue, no retry); and the process
\* exits only when every pushed item is done.
C11_ExactlyOnce ==
    /\ [](\A i \in 1..Len(pushed) :
            /\ Waiting(i) \/ Running(i) \/ Done(i)
            /\ ~(Queued(i) /\ Running(i))
            /\ ~(Queued(i) /\ Done(i))
            /\ ~(Running(i) /\ Done(i))
            /\ Queued(i) => Waiting(i))
    /\ [](exited # "no" => \A i \in 1..Len(pushed) : Done(i))
    /\ [][\A i \in 1..Len(pushed) :
            /\ Running(i) => Running(i)' \/ Done(i)'
            /\ Done(i) => Done(i)'
            /\ Queued(i)' => Queued(i)]_vars

\* The same path pushed twice (by the scan, then by the watcher after the
\* file was created again), a third item skipped or failed, all done.
C11_Witness ==
    /\ Len(pushed) >= 3
    /\ finished = 1..Len(pushed)
    /\ tasks = <<>> /\ DOMAIN inflight = {}
    /\ \E i, j \in 1..Len(pushed) : i < j /\ pushed[i] = pushed[j]
    /\ \E i \in 1..Len(pushed) : pushed[i] \in DOMAIN files

\* Item i went through processFile and its file is still where it was
\* (nothing pushed that path again): the read or the move failed.
Failed(i) ==
    /\ Done(i)
    /\ RegexTest(pushed[i].name)
    /\ pushed[i] \in DOMAIN files
    /\ \A j \in 1..Len(pushed) : j > i => pushed[j] # pushed[i]

\* The bytes b lie in the output directory or in a category directory.
MovedBytes(b) ==
    \E q \in DOMAIN files :
        q.dir \notin {"watch", "watch/Screenshots/original"} /\ files[q] = b

\* C12: a failure while an item is processed stays inside processFile: the
\* process never ends with an error code, every execution is at one of
\* processFile's awaits until it resolves, an item that failed is done,
\* every item pushed after it is waiting, running or done, and the process
\* does not exit while any pushed item is not done.
C12_FailuresContained ==
    /\ exited \in {"no", "0"}
    /\ \A id \in DOMAIN inflight :
          inflight[id].pc \in {"readFile", "rename", "copyFile", "renameFile"}
    /\ \A i \in 1..Len(pushed) :
          Failed(i) =>
              \A j \in 1..Len(pushed) :
                  j > i => /\ Queued(j) \/ Running(j) \/ Done(j)
                           /\ exited # "no" => Done(j)
    /\ exited = "no" /\ tasks # <<>> /\ DOMAIN inflight = {} => CanStartWorker

\* Three items, the second failed, the first and the third moved.
C12_Witness ==
    /\ Len(pushed) = 3
    /\ finished = {1, 2, 3}
    /\ Failed(2)
    /\ pushed[1] = pushed[3] /\ pushed[3] \notin DOMAIN files
    /\ MovedBytes(InitialData(pushed[1].name))
    /\ MovedBytes(CreatedData(1))

\* C13: with --retroactive and without --watch the process exits with code
\* 0 only when the scan has finished enumerating, the queue is empty,
\* nothing is in flight, and every matching regular file the scan
\* enumerated has been pushed and is done.
C13_ExitsAfterScan ==
    options.retroactive /\ ~options.watch /\ exited = "0"
        => /\ mainPc = "returned"
           /\ tasks = <<>> /\ DOMAIN inflight = {}
           /\ \A k \in 1..Len(scanList) :
                 RegexTest(scanList[k])
                     => \E i \in 1..Len(pushed) :
                           pushed[i] = Path("watch", scanList[k]) /\ Done(i)

\* C14: with --watch the process never exits, however often the queue
\* drains, and a matching file that appears in the watch directory while
\* watching has been pushed: it is waiting, running or done.
C14_WatchKeepsRunning ==
    options.watch
        => /\ exited = "no"
           /\ \A q \in DOMAIN files :
                 q.dir = "watch" /\ RegexTest(q.name) /\ files[q] > Len(NameOrder)
                     => \E i \in 1..Len(pushed) :
                           pushed[i] = q /\ (Queued(i) \/ Running(i) \/ Done(i))

\* The queue drained after the first item was moved; the same name was then
\* created again, pushed by the watcher and processed.
C14_Witness ==
    /\ options.watch
    /\ Len(pushed) = 2 /\ pushed[1] = pushed[2]
    /\ finished = {1, 2} /\ creates = 1
    /\ MovedBytes(CreatedData(1))
    /\ exited = "no"

\* The path <dir>/<base>-k<ext> of a target path, the target itself for k = 0.
Numbered(target, k) == [dir |-> target.dir, name |-> [target.name EXCEPT !.count = k]]

\* C15: the path renameFile moves the source to is the target when no file
\* exists there, and otherwise <dir>/<base>-k<ext> for the smallest k >= 1
\* at which no file exists.
C15_SmallestFreeSuffix ==
    \A id \in DOMAIN inflight :
        inflight[id].pc = "renameFile" =>
            LET target == inflight[id].newPath
                k == inflight[id].finalPath.name.count
            IN  /\ target.name.count = 0
                /\ inflight[id].finalPath = Numbered(target, k)
                /\ inflight[id].finalPath \notin DOMAIN files
                /\ \A j \in 0..(k - 1) : Numbered(target, j) \in DOMAIN files

\* The target was occupied; the second file landed on -1 and the third on -2.
C15_Witness ==
    \E target \in DOMAIN files :
        /\ target.name.count = 0 /\ target.dir # "watch"
        /\ files[target] = EarlierData
        /\ Numbered(target, 1) \in DOMAIN files
        /\ Numbered(target, 2) \in DOMAIN files
        /\ files[Numbered(target, 1)] = InitialData(ShotDated)
        /\ files[Numbered(target, 2)] = CreatedData(1)

\* C16: no step of the pipeline replaces or changes a file that exists in
\* the output directory or in a category directory: it is still there, with
\* the same bytes, after the step.
C16_NoFileReplaced ==
    [][\A q \in DOMAIN files :
          q.dir \notin {"watch", "watch/Screenshots/original"}
              => q \in DOMAIN files' /\ files'[q] = files[q]]_vars

\* A file was moved to the target an earlier file occupies: the earlier
\* file kept its bytes and the moved one lies beside it.
C16_Witness ==
    \E q \in DOMAIN files :
        /\ q.dir = "watch/Screenshots/web" /\ q.name.count = 0
        /\ files[q] = EarlierData
        /\ Numbered(q, 1) \in DOMAIN files
        /\ files[Numbered(q, 1)] = InitialData(ShotDated)
        /\ finished # {}

\* C17: when renameFile's move settles, processFile resolves normally, and
\* the move is all or nothing: either the source is gone and its bytes are
\* at the target, or (the move failed) the source is at its path with its
\* bytes, no file is at the target and nothing else has changed.
C17_FailedMoveLeavesSource ==
    [][\A id \in DOMAIN inflight :
          inflight[id].pc = "renameFile" /\ id \notin DOMAIN inflight'
              => LET src == inflight[id].filePath
                     dest == inflight[id].finalPath
                 IN  /\ id \in finished'
                     /\ exited' \in {"no", "0"}
                     /\ src \in DOMAIN files =>
                          \/ /\ src \notin DOMAIN files'
                             /\ dest \in DOMAIN files'
                             /\ files'[dest] = files[src]
                          \/ /\ files' = files
                             /\ dest \notin DOMAIN files']_vars

\* The backup of the first item was made and its move failed: the item is
\* done, the source is in place with its bytes, no output path holds them.
C17_Witness ==
    /\ Len(pushed) >= 1 /\ Done(1)
    /\ pushed[1] \in DOMAIN files
    /\ files[pushed[1]] = InitialData(pushed[1].name)
    /\ Path("watch/Screenshots/original", pushed[1].name) \in DOMAIN files
    /\ ~MovedBytes(InitialData(pushed[1].name))
    /\ exited = "no"

\* C18: whatever the outcome of the backup copy, the step in which it
\* settles takes the item on to the move to its resolved target path: a
\* failed copy (nothing written) does not end the item.
C18_BackupFailureGoesOn ==
    [][\A id \in DOMAIN inflight :
          inflight[id].pc = "copyFile"
              => /\ id \in DOMAIN inflight'
                 /\ inflight'[id].pc \in {"copyFile", "renameFile"}
                 /\ inflight'[id].pc = "renameFile" =>
                        /\ inflight'[id].newPath = inflight[id].newPath
                        /\ inflight'[id].filePath = inflight[id].filePath
                        /\ id \notin finished']_vars

\* No backup was written (the copy failed), and the file was moved.
C18_Witness ==
    /\ Len(pushed) >= 1 /\ Done(1)
    /\ pushed[1] \notin DOMAIN files
    /\ MovedBytes(InitialData(pushed[1].name))
    /\ \A q \in DOMAIN files : q.dir # "watch/Screenshots/original"

\* C19: the move of an item begins only in the step in which its backup
\* copy settles: the copy has completed (the backup directory holds the
\* source's bytes under the original base name, the source is untouched) or
\* has failed (nothing changed); and a file leaves the watch directory only
\* through the move of an item whose backup copy has settled.
C19_BackupBeforeMove ==
    [][/\ \A id \in DOMAIN inflight' :
            (/\ inflight'[id].pc = "renameFile"
             /\ (id \in DOMAIN inflight => inflight[id].pc # "renameFile"))
            => /\ id \in DOMAIN inflight
               /\ inflight[id].pc = "copyFile"
               /\ LET src == inflight[id].filePath
                      bak == [dir |-> "watch/Screenshots/original", name |-> src.name]
                  IN  \/ files' = files
                      \/ /\ src \in DOMAIN files
                         /\ DOMAIN files' = DOMAIN files \cup {bak}
                         /\ files'[bak] = files[src]
                         /\ \A q \in DOMAIN files \ {bak} : files'[q] = files[q]
       /\ \A q \in DOMAIN files :
            q.dir = "watch" /\ q \notin DOMAIN files'
                => \E id \in DOMAIN inflight :
                      inflight[id].pc = "renameFile" /\ inflight[id].filePath = q]_vars

\* `Screenshot 2024-01-02 at 10.00.00.png` classified {web, login-page}: the
\* backup holds its bytes under its name and the file lies at
\* <outdir>/web/2024-01-02-login-page.png.
C19_Witness ==
    LET src == [dir |-> "watch", name |-> ShotDated]
        bak == [dir |-> "watch/Screenshots/original", name |-> ShotDated]
        dest == [dir |-> "watch/Screenshots/web",
                 name |-> BaseName("2024-01-02", TRUE, "login-page", 0, ".png")]
    IN  /\ Len(pushed) >= 1 /\ pushed[1] = src /\ Done(1)
        /\ src \notin DOMAIN files
        /\ bak \in DOMAIN files /\ files[bak] = InitialData(ShotDated)
        /\ dest \in DOMAIN files /\ files[dest] = InitialData(ShotDated)

\* C20: the directory of an item's target path is <outdir>/<category>
\* exactly when the returned category is one of the configured keys; with
\* the category absent or not configured it is <outdir> itself, and the item
\* goes on to the backup and the move as any other.
C20_TargetDirectory ==
    \A id \in DOMAIN inflight :
        inflight[id].pc \in {"copyFile", "renameFile"} =>
            LET c == inflight[id].result.category
                configured ==
                    /\ c.t = "str"
                    /\ c.v \in {"code", "reference", "text", "web", "youtube", "other"}
            IN  /\ configured => inflight[id].newPath.dir = "watch/Screenshots/" \o c.v
                /\ ~configured => inflight[id].newPath.dir = "watch/Screenshots"

\* One file was moved into <outdir>/web; the item in flight came back with
\* the category "misc", which is not configured, and is headed for <outdir>.
C20_Witness ==
    /\ \E q \in DOMAIN files :
          q.dir = "watch/Screenshots/web" /\ files[q] # EarlierData
    /\ \E id \in DOMAIN inflight :
          /\ inflight[id].pc = "renameFile"
          /\ inflight[id].result.category = Str("misc")
          /\ inflight[id].finalPath.dir = "watch/Screenshots"

\* The bytes b are the content of exactly one file outside the backup
\* directory, and that file is the source (in the watch directory) or lies
\* in the output tree.
HeldOnce(b) ==
    Cardinality({q \in DOMAIN files :
                    q.dir # "watch/Screenshots/original" /\ files[q] = b}) = 1

\* C21: no input is lost: the bytes of every file the scan pushed and of
\* every file created in the watch directory exist, unmodified and exactly
\* once outside the backup directory, at the source path or at a move
\* destination, in every reachable state.
C21_NoInputLost ==
    /\ \A i \in 1..Len(pushed) :
          i <= scanCount => HeldOnce(InitialData(pushed[i].name))
    /\ \A k \in 1..creates : HeldOnce(CreatedData(k))

\* One item failed and its bytes are at the source; another was moved and
\* its bytes are at the destination.
C21_Witness ==
    \E i, j \in 1..Len(pushed) :
        /\ i <= scanCount /\ j <= scanCount
        /\ Failed(i) /\ files[pushed[i]] = InitialData(pushed[i].name)
        /\ Done(j) /\ pushed[j] \notin DOMAIN files
        /\ MovedBytes(InitialData(pushed[j].name))

\* C22: the backup directory is append-only: no step replaces or changes a
\* file that exists in it; a backup written earlier is still there, with the
\* same bytes, after every step.
C22_BackupsAppendOnly ==
    [][\A q \in DOMAIN files :
          q.dir = "watch/Screenshots/original"
              => q \in DOMAIN files' /\ files'[q] = files[q]]_vars

\* The creation date in the metadata of the file at filePath: every file of
\* the watch directory was created on 2024-03-04.
CreationDate(filePath) == "2024-03-04"

\* C23: when the base name of the processed file holds no valid date, the
\* date in the new name is the creation date of the file at its path.
C23_CreationDateOfTheFile ==
    \A id \in DOMAIN inflight :
        /\ inflight[id].pc \in {"copyFile", "renameFile"}
        /\ EmbeddedDate(inflight[id].filePath.name) = ""
        => inflight[id].newPath.name.date = CreationDate(inflight[id].filePath)

\* C24: every file the pipeline moved has a base name
\* <date>-<filename><extension> (with an optional -k before the extension)
\* whose date is a non-empty YYYY-MM-DD; likewise every target path of an
\* item on its way to the move.
C24_DatePrefixNeverEmpty ==
    /\ \A q \in DOMAIN files :
          q.dir \notin {"watch", "watch/Screenshots/original"} /\ files[q] # EarlierData
              => q.name.dashed /\ q.name.date \in {"2024-01-02", "2024-03-04"}
    /\ \A id \in DOMAIN inflight :
          inflight[id].pc \in {"copyFile", "renameFile"}
              => inflight[id].newPath.name.date # ""

(***************************************************************************)
(* Date inference.  A file name is a sequence of characters; a regular     *)
(* expression of getDateFromScreenshot is a sequence of atoms: a captured  *)
(* group of min..max digits, a literal character or an optional literal.   *)
(* Matching is JavaScript's: leftmost, greedy, with backtracking.          *)
(***************************************************************************)
DigitChars == <<"0", "1", "2", "3", "4", "5", "6", "7", "8", "9">>
IsDigit(c) == \E v \in 1..10 : DigitChars[v] = c
DigitVal(c) == (CHOOSE v \in 1..10 : DigitChars[v] = c) - 1

D(min, max) == [atom |-> "digits", min |-> min, max |-> max, c |-> ""]
L(c) == [atom |-> "literal", min |-> 1, max |-> 1, c |-> c]
Opt(c) == [atom |-> "optional", min |-> 0, max |-> 1, c |-> c]

NoMatch == [ok |-> FALSE, index |-> 0, end |-> 0, groups |-> <<>>]

\* How many digits stand at text[pos..], counted up to max.
RECURSIVE DigitRun(_, _, _)
DigitRun(text, pos, max) ==
    IF max = 0 \/ pos > Len(text) \/ ~IsDigit(text[pos]) THEN 0
    ELSE 1 + DigitRun(text, pos + 1, max - 1)

\* The atoms from the a-th on matched at text[pos..]: the end of the match
\* and the captured groups.  take is the number of digits the a-th atom
\* tries next (greedy: the longest first), -1 for "not yet chosen".
RECURSIVE MatchAtoms(_, _, _, _, _)
MatchAtoms(text, pos, atoms, a, take) ==
    IF a > Len(atoms) THEN [ok |-> TRUE, index |-> 0, end |-> pos, groups |-> <<>>]
    ELSE IF atoms[a].atom = "literal"
    THEN IF pos <= Len(text) /\ text[pos] = atoms[a].c
         THEN MatchAtoms(text, pos + 1, atoms, a + 1, -1)
         ELSE NoMatch
    ELSE IF atoms[a].atom = "optional"
    THEN LET with == IF pos <= Len(text) /\ text[pos] = atoms[a].c
                     THEN MatchAtoms(text, pos + 1, atoms, a + 1, -1)
                     ELSE NoMatch
         IN  IF with.ok THEN with ELSE MatchAtoms(text, pos, atoms, a + 1, -1)
    ELSE LET n == IF take = -1 THEN DigitRun(text, pos, atoms[a].max) ELSE take
         IN  IF n < atoms[a].min THEN NoMatch
             ELSE LET rest == MatchAtoms(text, pos + n, atoms, a + 1, -1)
                  IN  IF rest.ok
                      THEN [rest EXCEPT !.groups =
                                <<SubSeq(text, pos, pos + n - 1)>> \o rest.groups]
                      ELSE IF n = 0 THEN NoMatch
                      ELSE MatchAtoms(text, pos, atoms, a, n - 1)

\* text.match(regex) for a regex without the g flag: the leftmost match at
\* or after index from (1-based); index is where it starts.
RECURSIVE MatchFrom(_, _, _)
MatchFrom(text, atoms, from) ==
    IF from > Len(text) + 1 THEN NoMatch
    ELSE LET m == MatchAtoms(text, from, atoms, 1, -1)
         IN  IF m.ok THEN [m EXCEPT !.index = from]
             ELSE MatchFrom(text, atoms, from + 1)

\* text.match(regex) for a regex that starts with ^.
MatchStart(text, atoms) ==
    LET m == MatchAtoms(text, 1, atoms, 1, -1)
    IN  IF m.ok THEN [m EXCEPT !.index = 1] ELSE NoMatch

\* Number.parseInt(digits, 10) for a string of at most 9 digits.
RECURSIVE parseInt(_)
parseInt(digits) ==
    IF digits = <<>> THEN 0
    ELSE 10 * parseInt(SubSeq(digits, 1, Len(digits) - 1))
         + DigitVal(digits[Len(digits)])


\* The quotient and the remainder of a decimal numeral by divisor, digit by
\* digit (a 10-digit or 13-digit numeral does not fit a machine integer).
RECURSIVE DivMod(_, _)
DivMod(digits, divisor) ==
    IF digits = <<>> THEN [q |-> 0, r |-> 0]
    ELSE LET h == DivMod(SubSeq(digits, 1, Len(digits) - 1), divisor)
             v == h.r * 10 + DigitVal(digits[Len(digits)])
         IN  [q |-> h.q * 10 + (v \div divisor), r |-> v % divisor]

Ymd(y, m, d) == [y |-> y, m |-> m, d |-> d]

\* The calendar date of the day that lies `days` days after 1970-01-01.
CivilFromDays(days) ==
    LET z == days + 719468
        era == z \div 146097
        doe == z - era * 146097
        yoe == (doe - (doe \div 1460) + (doe \div 36524) - (doe \div 146096)) \div 365
        doy == doe - (365 * yoe + (yoe \div 4) - (yoe \div 100))
        mp == (5 * doy + 2) \div 153
        d == doy - ((153 * mp + 2) \div 5) + 1
        m == IF mp < 10 THEN mp + 3 ELSE mp - 9
    IN  Ymd(yoe + era * 400 + (IF m <= 2 THEN 1 ELSE 0), m, d)

\* new Date(match[1].length === 10 ? timestamp * 1000 : timestamp), read
\* back in local time (tz: the zone's offset from UTC in seconds).
DateFromTimestamp(digits, tz) ==
    LET millis == Len(digits) # 10
        t == DivMod(digits, IF millis THEN 86400000 ELSE 86400)
        secs == IF millis THEN t.r \div 1000 ELSE t.r
    IN  CivilFromDays(t.q + ((secs + tz + 86400) \div 86400) - 1)

NoDate == Ymd(0, 0, 0)

\* The loop turn without the test of the year.
TimestampTurnAnyYear(match, thisYear, tz) ==
    IF ~match.ok THEN NoDate ELSE DateFromTimestamp(match.groups[1], tz)

\* One turn of the loop over unixTimestampPatterns: the date when the
\* pattern matched and the year is between 1990 and next year, else NoDate.
TimestampTurn(match, thisYear, tz) ==
    IF ~match.ok THEN NoDate
    ELSE LET dateFromTimestamp == DateFromTimestamp(match.groups[1], tz)
         IN  IF dateFromTimestamp.y >= 1990 /\ dateFromTimestamp.y <= thisYear + 1
             THEN dateFromTimestamp
             ELSE NoDate

\* The loop over unixTimestampPatterns: /\[?(\d{10})\]?/, /^(\d{13})/,
\* /(\d{10})\.(\d{3,9})/, the first accepted one wins.
UnixTimestampDate(fileName, thisYear, tz) ==
    LET first == TimestampTurn(MatchFrom(fileName, <<Opt("["), D(10, 10), Opt("]")>>, 1),
                               thisYear, tz)
        second == TimestampTurn(MatchStart(fileName, <<D(13, 13)>>), thisYear, tz)
        third == TimestampTurn(MatchFrom(fileName, <<D(10, 10), L("."), D(3, 9)>>, 1),
                               thisYear, tz)
    IN  IF first # NoDate THEN first
        ELSE IF second # NoDate THEN second
        ELSE third

DatePattern(regex, yearIndex, monthIndex, dayIndex, shortYear) ==
    [regex |-> regex, yearIndex |-> yearIndex, monthIndex |-> monthIndex,
     dayIndex |-> dayIndex, shortYear |-> shortYear]

\* datePatterns, in the order of the array.
datePatterns ==
    << DatePattern(<<D(4, 4), L("-"), D(2, 2), L("-"), D(2, 2)>>, 1, 2, 3, FALSE),
       DatePattern(<<D(1, 2), L("/"), D(1, 2), L("/"), D(4, 4)>>, 3, 1, 2, FALSE),
       DatePattern(<<D(1, 2), L("."), D(1, 2), L("."), D(4, 4)>>, 3, 2, 1, FALSE),
       DatePattern(<<D(2, 2), L("-"), D(2, 2), L("-"), D(2, 2)>>, 1, 2, 3, TRUE),
       DatePattern(<<D(4, 4), D(2, 2), D(2, 2)>>, 1, 2, 3, FALSE),
       DatePattern(<<D(1, 2), L("-"), D(1, 2), L("-"), D(4, 4)>>, 3, 2, 1, FALSE),
       DatePattern(<<D(4, 4), L("_"), D(2, 2), L("_"), D(2, 2)>>, 1, 2, 3, FALSE),
       DatePattern(<<D(1, 2), L("_"), D(1, 2), L("_"), D(4, 4)>>, 3, 2, 1, FALSE),
       DatePattern(<<D(1, 2), L("-"), D(1, 2), L("-"), D(2, 2)>>, 3, 1, 2, TRUE) >>

\* fileName.indexOf(sub, from), 0-based; -1 when there is none.
RECURSIVE indexOf(_, _, _)
indexOf(text, sub, from) ==
    IF from + Len(sub) > Len(text) THEN -1
    ELSE IF SubSeq(text, from + 1, from + Len(sub)) = sub THEN from
    ELSE indexOf(text, sub, from + 1)

\* The while loop that collects allMatches: startPos (0-based) advances by
\* fileName.indexOf(matchResult[0], startPos) + matchResult[0].length.
RECURSIVE AllMatches(_, _, _)
AllMatches(fileName, regex, startPos) ==
    IF startPos >= Len(fileName) THEN <<>>
    ELSE LET matchResult == MatchFrom(fileName, regex, startPos + 1)
         IN  IF ~matchResult.ok THEN <<>>
             ELSE LET whole == SubSeq(fileName, matchResult.index, matchResult.end - 1)
                  IN  <<whole>> \o
                      AllMatches(fileName, regex,
                                 startPos + indexOf(fileName, whole, startPos)
                                     + Len(whole))

IsLeapYear(y) == (y % 4 = 0 /\ y % 100 # 0) \/ y % 400 = 0

DaysInMonth(y, m) ==
    IF m = 2 THEN (IF IsLeapYear(y) THEN 29 ELSE 28)
    ELSE IF m \in {4, 6, 9, 11} THEN 30 ELSE 31

\* isValidDate: the ranges, then new Date(year, month - 1, day) must give
\* the same year, month and day back (the day exists in that month).
isValidDate(year, month, day, thisYear) ==
    /\ ~(year < 1970 \/ year > thisYear + 1)
    /\ ~(month < 1 \/ month > 12)
    /\ ~(day < 1 \/ day > 31)
    /\ day <= DaysInMonth(year, month)


\* The body of the loop over allMatches: the match is taken apart again and
\* its year, month and day are validated.
MatchDate(whole, pattern, thisYear) ==
    LET parts == MatchFrom(whole, pattern.regex, 1)
        short == parseInt(parts.groups[pattern.yearIndex])
        year == IF ~pattern.shortYear THEN short
                ELSE IF short < 70 THEN 2000 + short ELSE 1900 + short
        month == parseInt(parts.groups[pattern.monthIndex])
        day == parseInt(parts.groups[pattern.dayIndex])
    IN  IF ~parts.ok THEN NoDate
        ELSE IF isValidDate(year, month, day, thisYear) THEN Ymd(year, month, day)
        ELSE NoDate

\* for (const match of allMatches): the first match with a valid date.
RECURSIVE FirstValidMatch(_, _, _, _)
FirstValidMatch(allMatches, k, pattern, thisYear) ==
    IF k > Len(allMatches) THEN NoDate
    ELSE IF MatchDate(allMatches[k], pattern, thisYear) # NoDate
    THEN MatchDate(allMatches[k], pattern, thisYear)
    ELSE FirstValidMatch(allMatches, k + 1, pattern, thisYear)

\* for (const pattern of datePatterns), from the p-th pattern on.
RECURSIVE PatternDate(_, _, _)
PatternDate(fileName, p, thisYear) ==
    IF p > Len(datePatterns) THEN NoDate
    ELSE LET foundDate ==
                 FirstValidMatch(AllMatches(fileName, datePatterns[p].regex, 0), 1,
                                 datePatterns[p], thisYear)
         IN  IF foundDate # NoDate THEN foundDate
             ELSE PatternDate(fileName, p + 1, thisYear)

\* String(n) for n >= 0, and String(n).padStart(2, "0").
RECURSIVE ToDigits(_)
ToDigits(n) ==
    IF n < 10 THEN <<DigitChars[n + 1]>>
    ELSE ToDigits(n \div 10) \o <<DigitChars[(n % 10) + 1]>>

PadStart2(digits) == IF Len(digits) < 2 THEN <<"0">> \o digits ELSE digits

\* `${year}-${month}-${day}` with month and day padded to two digits.
FormatDate(date) ==
    ToDigits(date.y) \o <<"-">> \o PadStart2(ToDigits(date.m)) \o <<"-">>
        \o PadStart2(ToDigits(date.d))

\* getDateFromScreenshot on the characters of a file name: the timestamp
\* patterns, then the date patterns, then the creation date from the stat
\* call (stat = NoDate: the call threw, the result is the empty string).
getDateFromScreenshotName(fileName, thisYear, tz, stat) ==
    LET fromTimestamp == UnixTimestampDate(fileName, thisYear, tz)
        foundDate == IF fromTimestamp # NoDate THEN fromTimestamp
                     ELSE PatternDate(fileName, 1, thisYear)
    IN  IF foundDate # NoDate THEN FormatDate(foundDate)
        ELSE IF stat # NoDate THEN FormatDate(stat)
        ELSE <<>>

(***************************************************************************)
(* The calls of getDateFromScreenshot under study: the file names, the     *)
(* years the clock may show, the zones' offsets from UTC in seconds and    *)
(* what the stat call gives.                                               *)
(***************************************************************************)
ShotSuffix == <<"-", "s", "h", "o", "t", ".", "p", "n", "g">>
PngSuffix == <<".", "p", "n", "g">>

IsoName ==
    <<"I", "M", "G", "_", "2", "0", "2", "3", "-", "1", "1", "-", "0", "5",
      "_", "t", "e", "s", "t", ".", "p", "n", "g">>
EuropeanName ==
    <<"0", "5", ".", "1", "1", ".", "2", "0", "2", "3", ".", "p", "n", "g">>
CompactName ==
    <<"S", "c", "r", "e", "e", "n", "s", "h", "o", "t", "_", "2", "0", "2",
      "3", "1", "1", "0", "5", ".", "p", "n", "g">>
UnderscoreName ==
    <<"2", "0", "2", "3", "_", "1", "1", "_", "0", "5", ".", "p", "n", "g">>
DayFirstUnderscoreName ==
    <<"0", "5", "_", "1", "1", "_", "2", "0", "2", "3", ".", "p", "n", "g">>
DayFirstDashName ==
    <<"0", "5", "-", "1", "1", "-", "2", "0", "2", "3", ".", "p", "n", "g">>
CompactThenTimeName ==
    <<"S", "c", "r", "e", "e", "n", "s", "h", "o", "t", "_", "2", "0", "2",
      "3", "1", "1", "0", "5", "_", "1", "2", "-", "0", "1", "-", "0", "2",
      ".", "p", "n", "g">>
UnderscoreThenTimeName ==
    <<"0", "5", "_", "1", "1", "_", "2", "0", "2", "3", "_", "1", "0", "-",
      "1", "1", "-", "1", "2", ".", "p", "n", "g">>
IsoThenTimeName ==
    <<"2", "0", "2", "3", "-", "1", "1", "-", "0", "5", " ", "a", "t", " ",
      "1", "0", "-", "1", "1", "-", "1", "2", ".", "p", "n", "g">>
ImpossibleDayName ==
    <<"2", "0", "2", "4", "-", "0", "2", "-", "3", "0", ".", "p", "n", "g">>
UndatedName == <<"n", "o", "t", "e", "s", ".", "p", "n", "g">>
CompactDateTimeName ==
    <<"2", "0", "2", "3", "1", "1", "0", "5", "1", "2", "3", "4", "5", "6",
      ".", "p", "n", "g">>
FarThenIsoName ==
    <<"9", "9", "9", "9", "9", "9", "9", "9", "9", "9", "_", "2", "0", "2",
      "3", "-", "1", "1", "-", "0", "5", ".", "p", "n", "g">>

PatternNames ==
    {IsoName, EuropeanName, CompactName, UnderscoreName,
     DayFirstUnderscoreName, DayFirstDashName, CompactThenTimeName,
     UnderscoreThenTimeName, IsoThenTimeName, ImpossibleDayName, UndatedName,
     CompactDateTimeName, FarThenIsoName}

\* Two digits for a number below 100.
TwoDigits(n) == PadStart2(ToDigits(n))

\* Names whose only date is YY-MM-DD, and whose only date is MM-DD-YY (the
\* month 25 of the YY-MM-DD reading does not exist).
ShortYearFirstName(yy, mm, dd) ==
    TwoDigits(yy) \o <<"-">> \o TwoDigits(mm) \o <<"-">> \o TwoDigits(dd)
        \o PngSuffix
ShortYearLastName(mm, dd, yy) ==
    TwoDigits(mm) \o <<"-">> \o TwoDigits(dd) \o <<"-">> \o TwoDigits(yy)
        \o PngSuffix
ShortYearNames ==
    {ShortYearFirstName(yy, 1, 2) : yy \in 0..99}
        \cup {ShortYearLastName(12, 25, yy) : yy \in 0..99}

\* Epoch seconds as ten digits, with the UTC date and the second of the UTC
\* day they stand for.
RECURSIVE PadStart10(_)
PadStart10(digits) ==
    IF Len(digits) >= 10 THEN digits ELSE PadStart10(<<"0">> \o digits)
EpochCase(seconds, y, m, d, secondOfDay) ==
    [digits |-> PadStart10(ToDigits(seconds)), utc |-> Ymd(y, m, d),
     secondOfDay |-> secondOfDay]
EpochCases ==
    { EpochCase(631123200, 1989, 12, 31, 57600),
      EpochCase(631151999, 1989, 12, 31, 86399),
      EpochCase(631152000, 1990, 1, 1, 0),
      EpochCase(631180799, 1990, 1, 1, 28799),
      EpochCase(631180800, 1990, 1, 1, 28800),
      EpochCase(1699142400, 2023, 11, 5, 0),
      EpochCase(1699171200, 2023, 11, 5, 28800),
      EpochCase(1709251199, 2024, 2, 29, 86399),
      EpochCase(1767193199, 2025, 12, 31, 53999),
      EpochCase(1767193200, 2025, 12, 31, 54000),
      EpochCase(1767225599, 2025, 12, 31, 86399),
      EpochCase(1767225600, 2026, 1, 1, 0),
      EpochCase(1767254399, 2026, 1, 1, 28799),
      EpochCase(1767254400, 2026, 1, 1, 28800),
      EpochCase(1830268800, 2027, 12, 31, 57600),
      EpochCase(1830297599, 2027, 12, 31, 86399),
      EpochCase(1830297600, 2028, 1, 1, 0),
      EpochCase(1830326399, 2028, 1, 1, 28799),
      EpochCase(1830326400, 2028, 1, 1, 28800),
      [digits |-> ToDigits(99999) \o ToDigits(99999), utc |-> Ymd(2286, 11, 20),
       secondOfDay |-> 63999] }

\* The forms a timestamp takes in a name: seconds, milliseconds, seconds in
\* brackets, seconds with a fraction, milliseconds after a prefix.
SecondsName(c) == c.digits \o ShotSuffix
MillisName(c) == c.digits \o <<"1", "2", "3">> \o PngSuffix
BracketName(c) == <<"[">> \o c.digits \o <<"]">> \o PngSuffix
FractionName(c) == c.digits \o <<".", "1", "2", "3", "4", "5", "6">> \o PngSuffix
PrefixedMillisName(c) == <<"s", "h", "o", "t", "_">> \o c.digits
                             \o <<"9", "9", "9">> \o PngSuffix
EpochForms(c) ==
    {SecondsName(c), MillisName(c), BracketName(c), FractionName(c),
     PrefixedMillisName(c)}
EpochNames == UNION {EpochForms(c) : c \in EpochCases}

DateFileNames == PatternNames \cup ShortYearNames \cup EpochNames
ThisYears == {2024, 2026}
Zones == {-28800, 0, 32400}
StatDates == {NoDate, Ymd(2024, 3, 4)}

DateInit ==
    /\ CfgAtRest
    /\ endpoint = [A |-> ThrownA, B |-> ReplyB(TRUE, FALSE, <<>>)]
    /\ rpc = [p \in Providers |-> "idle"]
    /\ requests = [p \in Providers |-> <<>>]
    /\ resolved = [p \in Providers |-> FailureSentinel]
    /\ SystemAtRest
    /\ dateIn \in [fileName : DateFileNames, thisYear : ThisYears, tz : Zones,
                   stat : StatDates]
    /\ dateOut = [done |-> FALSE, date |-> <<>>]

\* One call of getDateFromScreenshot returns.
GetDateFromScreenshot ==
    /\ ~dateOut.done
    /\ dateOut' = [done |-> TRUE,
                   date |-> getDateFromScreenshotName(dateIn.fileName,
                                dateIn.thisYear, dateIn.tz, dateIn.stat)]
    /\ UNCHANGED <<provVars, sysVars, bootVars, cfgVars, dateIn>>

DateNext == GetDateFromScreenshot

SpecDate == DateInit /\ [][DateNext]_vars

\* What the call falls back to when the name gives no date.
StatFallback == IF dateIn.stat # NoDate THEN FormatDate(dateIn.stat) ELSE <<>>

(***************************************************************************)
(* C25: the date patterns are tried in the order ISO, US, European,        *)
(* compact YYYYMMDD, the underscore forms, then the two-digit-year forms,  *)
(* and the first one with a calendar-valid match gives the date; a valid   *)
(* compact match wins over a two-digit-year match in the same name.        *)
(***************************************************************************)
\* datePatterns in the order the property lists them (by index into the
\* array): compact and the underscore forms come before YY-MM-DD.  The
\* property does not list DD-MM-YYYY, which stays behind YY-MM-DD.
ListedOrder == <<1, 2, 3, 5, 7, 8, 4, 6, 9>>

RECURSIVE ListedDate(_, _, _)
ListedDate(fileName, k, thisYear) ==
    IF k > Len(ListedOrder) THEN NoDate
    ELSE LET pattern == datePatterns[ListedOrder[k]]
             foundDate == FirstValidMatch(AllMatches(fileName, pattern.regex, 0),
                                          1, pattern, thisYear)
         IN  IF foundDate # NoDate THEN foundDate
             ELSE ListedDate(fileName, k + 1, thisYear)

C25_ListedPatternOrder ==
    (dateOut.done
        /\ UnixTimestampDate(dateIn.fileName, dateIn.thisYear, dateIn.tz) = NoDate)
        => LET listed == ListedDate(dateIn.fileName, 1, dateIn.thisYear)
           IN  dateOut.date = IF listed # NoDate THEN FormatDate(listed)
                              ELSE StatFallback

(***************************************************************************)
(* C26: a two-digit-year match with a real month and day is accepted for   *)
(* every YY in 0..99, as 2000+YY below 70 and as 1900+YY from 70 on, and   *)
(* that is the date returned when no earlier pattern matched.              *)
(***************************************************************************)
FullYear(yy) == IF yy < 70 THEN 2000 + yy ELSE 1900 + yy

C26_TwoDigitYears ==
    dateOut.done
        => \A yy \in 0..99 :
             /\ dateIn.fileName = ShortYearFirstName(yy, 1, 2)
                    => dateOut.date = FormatDate(Ymd(FullYear(yy), 1, 2))
             /\ dateIn.fileName = ShortYearLastName(12, 25, yy)
                    => dateOut.date = FormatDate(Ymd(FullYear(yy), 12, 25))

(***************************************************************************)
(* C27: a 10-digit or 13-digit epoch timestamp in the name is accepted     *)
(* exactly when its year in local time is between 1990 and the year after  *)
(* the current one; the date returned is then its local calendar date;     *)
(* otherwise the remaining patterns and the fallback decide.               *)
(***************************************************************************)
\* The day before and the day after a calendar date.
PrevDay(date) ==
    IF date.d > 1 THEN Ymd(date.y, date.m, date.d - 1)
    ELSE IF date.m > 1 THEN Ymd(date.y, date.m - 1, DaysInMonth(date.y, date.m - 1))
    ELSE Ymd(date.y - 1, 12, 31)
NextDay(date) ==
    IF date.d < DaysInMonth(date.y, date.m) THEN Ymd(date.y, date.m, date.d + 1)
    ELSE IF date.m < 12 THEN Ymd(date.y, date.m + 1, 1)
    ELSE Ymd(date.y + 1, 1, 1)

\* The local calendar date of an epoch case in the zone tz.
LocalDate(c, tz) ==
    IF c.secondOfDay + tz < 0 THEN PrevDay(c.utc)
    ELSE IF c.secondOfDay + tz >= 86400 THEN NextDay(c.utc)
    ELSE c.utc

InRange(date, thisYear) == date.y >= 1990 /\ date.y <= thisYear + 1

C27_EpochYearRange ==
    dateOut.done
        => /\ \A c \in EpochCases :
                dateIn.fileName \in EpochForms(c)
                    => dateOut.date =
                           IF InRange(LocalDate(c, dateIn.tz), dateIn.thisYear)
                           THEN FormatDate(LocalDate(c, dateIn.tz))
                           ELSE StatFallback
           /\ dateIn.fileName = FarThenIsoName
                  => dateOut.date = FormatDate(Ymd(2023, 11, 5))

\* 1699142400-shot.png (midnight UTC of 2023-11-05) gave 2023-11-04 eight
\* hours west of Greenwich.
C27_Witness ==
    /\ dateOut.done
    /\ dateIn.fileName = SecondsName(EpochCase(1699142400, 2023, 11, 5, 0))
    /\ dateIn.tz = -28800
    /\ dateOut.date = FormatDate(Ymd(2023, 11, 4))

(***************************************************************************)
(* Startup: main from parseCliOptions to the first await of startWatcher,  *)
(* then the lstat of the watch path.  The output directory is the default  *)
(* one, OutDir inside WatchDir.                                            *)
(***************************************************************************)
\* What a launch may be given: a fileNameRegex that is well formed, not of
\* the form /pattern/flags, or of that form but refused by new RegExp;
\* whether the provider's constructor finds its key and options; what
\* stands at the watch path.
Startups ==
    [fileNameRegex : {"ok", "format", "compile"}, credentials : BOOLEAN,
     watchPath : {"directory", "file", "missing"}]

\* Whether compileRegexStringOrFail returns (it exits otherwise).
compileRegexStringOrFail(regexString) == regexString = "ok"

\* fs.mkdirSync(outputDir, {recursive: true}) and the directories below it:
\* what stands at the watch path afterwards, "thrown" when the watch path
\* is a file.  The missing parents of outputDir are created with it.
MkdirOutputDirs(watch) == IF watch = "file" THEN "thrown" ELSE "directory"

StartupInit ==
    /\ CfgAtRest
    /\ endpoint = [A |-> ThrownA, B |-> ReplyB(TRUE, FALSE, <<>>)]
    /\ rpc = [p \in Providers |-> "idle"]
    /\ requests = [p \in Providers |-> <<>>]
    /\ resolved = [p \in Providers |-> FailureSentinel]
    /\ options \in {o \in [watch : BOOLEAN, retroactive : BOOLEAN] :
                      o.watch \/ o.retroactive}
    /\ provider \in Providers
    /\ startup \in Startups
    /\ watchPath = startup.watchPath
    /\ \E present \in SUBSET WatchNames, folders \in SUBSET {ShotFolder} :
         /\ watchPath # "directory" => present = {} /\ folders = {}
         /\ files = [q \in {Path(WatchDir, n) : n \in present \cup folders} |->
                       IF q.name \in folders THEN Directory
                       ELSE InitialData(q.name)]
    /\ mainPc = "main"
    /\ scanList = <<>>
    /\ scanIdx = 0
    /\ scanCount = 0
    /\ pushed = <<>>
    /\ tasks = <<>>
    /\ inflight = NoFiles
    /\ finished = {}
    /\ creates = 0
    /\ exited = "no"
    /\ DateAtRest

\* main up to the await of lstat: initializeProvider exits when the
\* constructor throws; the output directories are made (a throw there ends
\* main through its catch); startWatcher compiles the regex or exits.
Main ==
    /\ exited = "no"
    /\ mainPc = "main"
    /\ IF ~startup.credentials
       THEN exited' = "1" /\ UNCHANGED <<mainPc, watchPath>>
       ELSE IF MkdirOutputDirs(watchPath) = "thrown"
       THEN exited' = "1" /\ UNCHANGED <<mainPc, watchPath>>
       ELSE /\ watchPath' = MkdirOutputDirs(watchPath)
            /\ IF compileRegexStringOrFail(startup.fileNameRegex)
               THEN mainPc' = "lstat" /\ UNCHANGED exited
               ELSE exited' = "1" /\ UNCHANGED mainPc
    /\ UNCHANGED <<provVars, dateVars, cfgVars, startup, options, provider, files,
                   scanList, scanIdx, scanCount, pushed, tasks, inflight,
                   finished, creates>>

\* fs.promises.lstat(watchPath) settles: anything but a directory exits;
\* otherwise the queue is created and startWatcher goes on.
LstatSettles ==
    /\ exited = "no"
    /\ mainPc = "lstat"
    /\ IF watchPath = "directory"
       THEN mainPc' = "start" /\ UNCHANGED exited
       ELSE exited' = "1" /\ UNCHANGED mainPc
    /\ UNCHANGED <<provVars, dateVars, cfgVars, bootVars, options, provider, files,
                   scanList, scanIdx, scanCount, pushed, tasks, inflight,
                   finished, creates>>

StartupNext ==
    \/ Main
    \/ LstatSettles
    \/ Next

SpecStartup == StartupInit /\ [][StartupNext]_vars

(***************************************************************************)
(* C28: a launch with a startup error (a fileNameRegex that is malformed   *)
(* or does not compile, missing provider credentials or options, a watch   *)
(* path that is missing or not a directory) ends with a non-zero exit code *)
(* before the queue is created and before any file is read, classified,    *)
(* copied or moved.                                                        *)
(***************************************************************************)
StartupError ==
    \/ startup.fileNameRegex # "ok"
    \/ ~startup.credentials
    \/ startup.watchPath # "directory"

C28_StartupErrorsFatal ==
    StartupError
        => /\ mainPc \in {"main", "lstat"}
           /\ exited \in {"no", "1"}
           /\ pushed = <<>>
           /\ DOMAIN inflight = {}
           /\ creates = 0

(***************************************************************************)
(* C29: a file whose name does not match the pattern is never queued,      *)
(* read, sent to the provider, backed up or moved, whether the scan or a   *)
(* watcher 'add' event saw it; the scan queues regular files only.         *)
(***************************************************************************)
\* The entries of the watch directory that must stay out of the pipeline:
\* notes.txt does not match, the folder matches but is no regular file.
Ineligible == {Notes, ShotFolder}

C29_OnlyMatchingRegularFiles ==
    /\ [](/\ \A i \in 1..Len(pushed) : pushed[i].name \notin Ineligible
          /\ \A id \in DOMAIN inflight :
               inflight[id].filePath.name \notin Ineligible
          /\ \A q \in DOMAIN files : q.name \in Ineligible => q.dir = "watch")
    /\ [][\A q \in DOMAIN files :
            q.name \in Ineligible => q \in DOMAIN files' /\ files'[q] = files[q]]_vars

\* The scan listed the folder and a screenshot, the screenshot was moved;
\* then notes.txt was created under the watcher and stays where it is.
C29_Witness ==
    /\ mainPc = "watching"
    /\ \E k \in 1..Len(scanList) : scanList[k] = ShotFolder
    /\ creates = 1
    /\ Path("watch", Notes) \in DOMAIN files
    /\ files[Path("watch", Notes)] = CreatedData(1)
    /\ \E i \in 1..Len(pushed) : Done(i) /\ pushed[i] \notin DOMAIN files
    /\ tasks = <<>>
    /\ DOMAIN inflight = {}

(***************************************************************************)
(* C30: extractJsonFromText tries the whole text, then the first           *)
(* brace-delimited span, then the inner content of a fenced block, a later *)
(* one only when every earlier one failed; when all three fail it gives    *)
(* "no record" without throwing and the caller resolves to the failure     *)
(* value.                                                                  *)
(***************************************************************************)
\* The free-text reply whose content went through the extractor, for a
\* provider that has resolved at Stage B.
ExtractedAtStageB(p) ==
    /\ rpc[p] = "resolved"
    /\ Len(requests[p]) = 2
    /\ ~endpoint.B.thrown /\ endpoint.B.message /\ endpoint.B.content # <<>>

\* What the caller makes of a candidate record.
CallerResult(j) ==
    IF j.kind = "object" /\ validateJsonResponse(j)
    THEN JsonResponse(j.category, j.filename)
    ELSE FailureSentinel

Parsed(j) == j # SyntaxError

C30_ExtractionOrder ==
    \A p \in Providers :
        ExtractedAtStageB(p)
            => LET text == endpoint.B.content
                   whole == JSONparse(text)
                   span == BraceSpan(text)
                   block == FencedBlock(text)
               IN  /\ Parsed(whole) => resolved[p] = CallerResult(whole)
                   /\ ~Parsed(whole) /\ Parsed(span)
                          => resolved[p] = CallerResult(span)
                   /\ ~Parsed(whole) /\ ~Parsed(span) /\ Parsed(block)
                          => resolved[p] = CallerResult(block)
                   /\ ~Parsed(whole) /\ ~Parsed(span) /\ ~Parsed(block)
                          => resolved[p] = FailureSentinel

\* A preamble, a brace span and then a fenced block with another record:
\* the brace span's record is the result.
C30_Witness ==
    /\ endpoint.B.content =
           <<WORD, LB, FN_fallback, RB, FENCE_OPEN, LB, FN_shot, RB, FENCE_CLOSE>>
    /\ \A p \in Providers :
         /\ ExtractedAtStageB(p)
         /\ resolved[p] = JsonResponse(Absent, Str("fallback-name"))

(***************************************************************************)
(* C31: validateJsonResponse accepts exactly the records whose filename is *)
(* a string that is not empty after trimming and whose category is absent  *)
(* or a string; it never throws; both providers apply this decision to the *)
(* Stage A record and to the record extracted at Stage B.                  *)
(***************************************************************************)
\* The record a provider parses from the arguments of the tool call, and
\* whether the reply gave it one.
CallRecord(p) ==
    JSONparse(IF p = "openai" /\ endpoint.A.args = <<>> THEN <<LB, RB>>
              ELSE endpoint.A.args)
GotCallRecord(p) ==
    /\ ~endpoint.A.thrown /\ endpoint.A.message /\ endpoint.A.call
    /\ endpoint.A.name = "rename_screenshot"
    /\ endpoint.A.argsIsString
    /\ p = "openai" => FinishedNormally(endpoint.A)
    /\ CallRecord(p) # SyntaxError

\* The record the Ollama provider extracts from the text of a Stage A reply
\* without a tool call.
GotContentRecord(p) ==
    /\ p = "ollama"
    /\ ~endpoint.A.thrown /\ endpoint.A.message /\ ~endpoint.A.call
    /\ endpoint.A.content # <<>>
    /\ extractJsonFromText(endpoint.A.content).kind = "object"

\* The record extracted from the free-text reply at Stage B.
GotStageBRecord(p) ==
    /\ Len(requests[p]) = 2
    /\ ~endpoint.B.thrown /\ endpoint.B.message /\ endpoint.B.content # <<>>
    /\ extractJsonFromText(endpoint.B.content).kind = "object"

C31_SharedValidation ==
    \A p \in Providers :
        Settled(p)
            => /\ rpc[p] = "resolved"
               /\ GotCallRecord(p)
                      => (Len(requests[p]) = 1 <=> ValidRecord(CallRecord(p)))
               /\ GotContentRecord(p)
                      => (Len(requests[p]) = 1
                              <=> ValidRecord(extractJsonFromText(endpoint.A.content)))
               /\ GotStageBRecord(p)
                      => LET j == extractJsonFromText(endpoint.B.content)
                         IN  resolved[p] = IF ValidRecord(j)
                                           THEN JsonResponse(j.category, j.filename)
                                           ELSE FailureSentinel

\* The tool call's record has a number as category and is refused by both
\* providers; the Stage B text holds a record with a blank filename, refused
\* as well.
C31_Witness ==
    /\ endpoint.A.finish = "stop"
    /\ endpoint.A.call /\ endpoint.A.name = "rename_screenshot"
    /\ endpoint.A.args = <<LB, FN_login, COMMA, CAT_num, RB>>
    /\ endpoint.B.content = <<LB, FN_blank, RB>>
    /\ \A p \in Providers :
         /\ GotCallRecord(p) /\ GotStageBRecord(p)
         /\ rpc[p] = "resolved"
         /\ resolved[p] = FailureSentinel

(***************************************************************************)
(* C32: within one rename call the Stage B request carries the same prompt *)
(* text and the same image as the Stage A request and differs only in that *)
(* no tool is requested, for both providers.                               *)
(***************************************************************************)
C32_SamePromptAndImage ==
    \A p \in Providers :
        Len(requests[p]) = 2
            => LET stageA == RequestOf(p, requests[p][1])
                   stageB == RequestOf(p, requests[p][2])
               IN  /\ stageB.text = stageA.text
                   /\ stageB.image = stageA.image
                   /\ stageA.tools /\ ~stageB.tools

(***************************************************************************)
(* C33: for every processed item the final unique target path is           *)
(* determined before any file system mutation for that item: the existence *)
(* check and the numbering come before the backup copy and before the      *)
(* move.                                                                   *)
(***************************************************************************)
C33_TargetBeforeMutation ==
    [][\A id \in DOMAIN inflight :
         /\ id \in DOMAIN inflight'
         /\ inflight'[id].pc # inflight[id].pc
         /\ files' # files
         => inflight[id].finalPath # NoPath]_vars

(***************************************************************************)
(* C34: when reading the source file fails the item is abandoned: no       *)
(* provider request is issued for it, no file is created, copied, moved or *)
(* deleted, and the queue proceeds to the next item.                       *)
(***************************************************************************)
\* The step leaves processFile at its first await without calling the
\* provider: the execution ends from "readFile", never having been at
\* "rename".
AbandonedAtRead(id) ==
    /\ id \in DOMAIN inflight
    /\ inflight[id].pc = "readFile"
    /\ id \notin DOMAIN inflight'

C34_UnreadableAbandoned ==
    [][\A id \in DOMAIN inflight :
         /\ (inflight[id].pc = "readFile" /\ inflight' # inflight
               => \/ AbandonedAtRead(id)
                  \/ /\ id \in DOMAIN inflight'
                     /\ inflight'[id].pc = "rename"
                     /\ inflight[id].filePath \in DOMAIN files)
         /\ (AbandonedAtRead(id)
               => /\ files' = files
                  /\ id \in finished'
                  /\ tasks' = tasks
                  /\ exited' \in {"no", "0"}
                  /\ (exited' = "no" /\ tasks' # <<>> => CanStartWorker'))]_vars

\* The first item was abandoned (its file is where it was, with its bytes,
\* and no backup of it exists) and the worker has started on the second.
C34_Witness ==
    /\ Len(pushed) = 2
    /\ finished = {1}
    /\ pushed[1] \in DOMAIN files
    /\ files[pushed[1]] = InitialData(pushed[1].name)
    /\ BackupPath(pushed[1]) \notin DOMAIN files
    /\ ~MovedBytes(InitialData(pushed[1].name))
    /\ 2 \in DOMAIN inflight
    /\ inflight[2].pc = "rename"

(***************************************************************************)
(* C35: when the Stage A request itself throws, rename issues the Stage B  *)
(* free-text request exactly once; when that request throws as well,       *)
(* rename resolves to the failure value without any further request.       *)
(***************************************************************************)
C35_ThrowingStageA ==
    \A p \in Providers :
        endpoint.A.thrown =>
            /\ rpc[p] # "rejected"
            /\ (rpc[p] \in {"stageB", "resolved"}
                  => requests[p] = <<ToolCallRequest, FreeTextRequest>>)
            /\ (rpc[p] = "resolved" /\ endpoint.B.thrown
                  => resolved[p] = FailureSentinel)

\* Both requests threw; each provider issued the two requests, in order,
\* and resolved to the failure value.
C35_Witness ==
    /\ endpoint.A.thrown /\ endpoint.B.thrown
    /\ \A p \in Providers :
         /\ rpc[p] = "resolved"
         /\ requests[p] = <<ToolCallRequest, FreeTextRequest>>
         /\ resolved[p] = FailureSentinel

(***************************************************************************)
(* The one RegExp object startWatcher compiles and both the retroactive    *)
(* scan and the watcher's 'add' handler call test on.  File names are      *)
(* sequences of characters; none holds a line terminator.                  *)
(***************************************************************************)
MaxTests == 3

\* The flag sets compileRegexStringOrFail lets through: the flags part is
\* [gimyus]*, and new RegExp refuses a repeated flag.
AcceptedFlags == SUBSET {"g", "i", "m", "y", "u", "s"}

NameShot == <<"S", "c", "r", "e", "e", "n", "s", "h", "o", "t", ".", "p", "n", "g">>
NameShot1 ==
    <<"S", "c", "r", "e", "e", "n", "s", "h", "o", "t", " ", "1", ".", "p", "n", "g">>
NameUpper == <<"s", "c", "r", "e", "e", "n", "s", "h", "o", "t", ".", "P", "N", "G">>
NameNotes == <<"n", "o", "t", "e", "s", ".", "t", "x", "t">>
TestedNames == {NameShot, NameShot1, NameUpper, NameNotes}

\* Case folding of the letters the names hold in upper case.
Lower(c) ==
    CASE c = "S" -> "s" [] c = "P" -> "p" [] c = "N" -> "n" [] c = "G" -> "g"
      [] OTHER -> c

\* The index after the match of /^Screenshot.*\.png$/ starting at index k
\* of name (indices from 0), -1 when there is no match there.
MatchEnd(name, k, flags) ==
    LET Fold(c) == IF "i" \in flags THEN Lower(c) ELSE c
        head == <<"S", "c", "r", "e", "e", "n", "s", "h", "o", "t">>
        tail == <<".", "p", "n", "g">>
        n == Len(name)
        atLineStart == k = 0 \/ ("m" \in flags /\ name[k] = "\n")
    IN  IF /\ atLineStart
           /\ k + Len(head) + Len(tail) <= n
           /\ \A j \in 1..Len(head) : Fold(name[k + j]) = Fold(head[j])
           /\ \A j \in 1..Len(tail) : Fold(name[n - Len(tail) + j]) = Fold(tail[j])
        THEN n
        ELSE -1

\* RegExp.prototype.test: with g or y the search starts at lastIndex (with y
\* it is tried there only), a match leaves lastIndex after it and a failure
\* resets it to 0; without them lastIndex is neither read nor written.
RegExpTest(re, name) ==
    LET advancing == "g" \in re.flags \/ "y" \in re.flags
        start == IF advancing THEN re.lastIndex ELSE 0
        tries == IF start > Len(name) THEN {}
                 ELSE IF "y" \in re.flags THEN {start}
                 ELSE start..Len(name)
        hits == {k \in tries : MatchEnd(name, k, re.flags) # -1}
        first == CHOOSE k \in hits : \A h \in hits : k <= h
    IN  IF hits = {}
        THEN [match |-> FALSE, lastIndex |-> IF advancing THEN 0 ELSE re.lastIndex]
        ELSE [match |-> TRUE,
              lastIndex |-> IF advancing THEN MatchEnd(name, first, re.flags)
                            ELSE re.lastIndex]

RegexInit ==
    /\ endpoint = [A |-> ThrownA, B |-> ReplyB(TRUE, FALSE, <<>>)]
    /\ rpc = [p \in Providers |-> "idle"]
    /\ requests = [p \in Providers |-> <<>>]
    /\ resolved = [p \in Providers |-> FailureSentinel]
    /\ SystemAtRest
    /\ DateAtRest
    /\ outdir = "watch/Screenshots"
    /\ fileNameRegex \in [pattern : {DefaultPattern}, flags : AcceptedFlags,
                          lastIndex : {0}]
    /\ tested = <<>>
    /\ added = {}

\* One fileNameRegex.test(name) call on the shared object.
Tests(name, by) ==
    /\ LET r == RegExpTest(fileNameRegex, name)
       IN  /\ fileNameRegex' = [fileNameRegex EXCEPT !.lastIndex = r.lastIndex]
           /\ tested' = Append(tested, [name |-> name, by |-> by, match |-> r.match])
    /\ UNCHANGED <<provVars, sysVars, bootVars, dateVars, outdir, added>>

\* The scan loop tests the name of a listed regular file; the watcher is
\* started after the loop.
ScanTests(name) ==
    /\ Len(tested) < MaxTests
    /\ \A k \in 1..Len(tested) : tested[k].by = "scan"
    /\ Tests(name, "scan")

\* The 'add' handler tests the base name of a new file.
WatcherTests(name) ==
    /\ Len(tested) < MaxTests
    /\ Tests(name, "watcher")

RegexNext ==
    \/ \E name \in TestedNames : ScanTests(name)
    \/ \E name \in TestedNames : WatcherTests(name)

SpecRegex == RegexInit /\ [][RegexNext]_vars

\* What processFile decides for the name: it compiles the pattern anew for
\* every item, so its test starts at lastIndex 0.
FreshTest(name) == RegExpTest([fileNameRegex EXCEPT !.lastIndex = 0], name).match

(***************************************************************************)
(* C36: eligibility is a function of the base name alone: for every        *)
(* accepted flag set (g and y included) a test of the scan or of the       *)
(* watcher gives the decision the name gets on a fresh pattern, whatever   *)
(* names were tested before it.                                            *)
(***************************************************************************)
C36_DecisionByNameAlone ==
    \A k \in 1..Len(tested) : tested[k].match = FreshTest(tested[k].name)

(***************************************************************************)
(* The event loop runs every callback that is ready, and every file system *)
(* call and provider request settles (with a result or with an error): the *)
(* steps of the program are weakly fair.  The user creating files is not.  *)
(***************************************************************************)
ItemIds == 1..(Cardinality(WatchNames) + MaxCreates)

\* A step of the program itself, whichever callback runs.
ProgramStep ==
    \/ StartWatcher
    \/ ScanStep
    \/ StartWorker
    \/ \E id \in DOMAIN inflight : ReadFileSettles(id)
    \/ \E id \in DOMAIN inflight : RenameSettles(id)
    \/ \E id \in DOMAIN inflight : CopyFileSettles(id)
    \/ \E id \in DOMAIN inflight : MoveSettles(id)

Fairness == WF_vars(ProgramStep)

SpecFair == Spec /\ Fairness

(***************************************************************************)
(* C37: under fairness every path pushed to the queue eventually reaches   *)
(* terminal handling (its worker callback has run: moved, skipped or       *)
(* failed and logged), and with --retroactive and without --watch the      *)
(* process eventually exits.                                               *)
(***************************************************************************)
C37_Terminates ==
    /\ \A i \in ItemIds : (Len(pushed) >= i) ~> (i \in finished)
    /\ (options.retroactive /\ ~options.watch) ~> (exited # "no")

\* A retroactive run without --watch pushed two files, one was moved and
\* the other was left in place, and the process has exited.
C37_Witness ==
    /\ options.retroactive /\ ~options.watch
    /\ Len(pushed) = 2
    /\ finished = {1, 2}
    /\ pushed[1] \notin DOMAIN files
    /\ pushed[2] \in DOMAIN files
    /\ exited = "0"

(***************************************************************************)
(* The layouts a user can configure: --outdir is any directory, the watch  *)
(* directory itself included, and fileNameRegex any pattern.  The watcher  *)
(* reports every file that appears directly in the watch directory         *)
(* (depth 0), a file the pipeline moved there included.                    *)
(***************************************************************************)
MaxPushes == 4

LayoutInit ==
    /\ outdir \in {"watch/Screenshots", WatchDir}
    /\ fileNameRegex \in [pattern : {DefaultPattern, AnyPngPattern}, flags : {{"i"}},
                          lastIndex : {0}]
    /\ tested = <<>>
    /\ added = {}
    /\ endpoint = [A |-> ThrownA, B |-> ReplyB(TRUE, FALSE, <<>>)]
    /\ rpc = [p \in Providers |-> "idle"]
    /\ requests = [p \in Providers |-> <<>>]
    /\ resolved = [p \in Providers |-> FailureSentinel]
    /\ options \in {o \in [watch : BOOLEAN, retroactive : BOOLEAN] :
                      o.watch \/ o.retroactive}
    /\ provider = "openai"
    /\ \E present \in SUBSET {ShotPlain, Notes} :
         files = [q \in {Path(WatchDir, n) : n \in present} |-> InitialData(q.name)]
    /\ mainPc = "start"
    /\ scanList = <<>>
    /\ scanIdx = 0
    /\ scanCount = 0
    /\ pushed = <<>>
    /\ tasks = <<>>
    /\ inflight = NoFiles
    /\ finished = {}
    /\ creates = 0
    /\ exited = "no"
    /\ BootAtRest
    /\ DateAtRest

\* The watcher's 'add' handler runs for a file the pipeline moved into the
\* watch directory: a matching name is pushed.
ResultAdded(q) ==
    /\ exited = "no"
    /\ mainPc = "watching"
    /\ q \in added
    /\ Len(pushed) < MaxPushes
    /\ added' = added \ {q}
    /\ IF RegexTest(q.name)
       THEN Push(q)
       ELSE UNCHANGED <<pushed, tasks>>
    /\ UNCHANGED <<provVars, bootVars, dateVars, outdir, fileNameRegex, tested,
                   options, provider, files, mainPc, scanList, scanIdx,
                   scanCount, inflight, finished, creates, exited>>

LayoutNext ==
    \/ Next
    \/ \E q \in added : ResultAdded(q)

SpecLayout == LayoutInit /\ [][LayoutNext]_vars

(***************************************************************************)
(* C38: files written by the pipeline never re-enter it, for every         *)
(* configuration of watchdir, outdir and fileNameRegex: no path the        *)
(* watcher pushes is a moved result or a backup copy, so the pushes are at *)
(* most one per original screenshot.                                       *)
(***************************************************************************)
C38_NoReentry ==
    /\ \A i \in 1..Len(pushed) :
          /\ ~pushed[i].name.dashed
          /\ pushed[i].dir = WatchDir
    /\ Len(pushed) <= scanCount + creates

====
